---- MODULE Spec2Model ----
(***************************************************************************)
(* Verification model of the settrade feed adapter:                        *)
(*   - infra/settrade_mqtt.py    SettradeMQTTClient: session state         *)
(*     machine, subscription registry, reconnect worker, refresh timer     *)
(*   - infra/settrade_adapter.py BidOfferAdapter: the epoch stamped on     *)
(*     decoded events                                                      *)
(*   - core/dispatcher.py        Dispatcher: bounded SPSC queue            *)
(*                                                                         *)
(* Threads are program counters.  A step that runs under one lock, or that *)
(* touches no state another thread reads, is one atomic action.  Failures  *)
(* of the broker SDK and of paho calls are inputs chosen with \E.          *)
(***************************************************************************)
EXTENDS Integers, Sequences, FiniteSets, TLC

\* ------------------------------------------------------------------------
\* Bounds
\* ------------------------------------------------------------------------

\* Number of paho client instances that may be created (generation ids).
MaxGen == 2
\* Number of inbound frames the transport accepts (messages_received cap).
MaxMsgs == 2
\* Callbacks that may be registered on one topic.
MaxCallbacks == 2
\* Thread slots available for reconnect workers.
MaxWorkers == 2
\* Saturation point of the count of CONNECTED transitions.
MaxConnects == 2
\* Largest dispatcher capacity (DispatcherConfig.maxlen) tried.
MaxCap == 2
\* Number of push calls made on one dispatcher between two clear() calls.
MaxPush == 4
\* Largest max_events passed to poll().
MaxBatch == 2
\* Number of frames handed to the adapter's message handler.
MaxFrames == 8

\* longest symbol passed to the adapter
MaxSymLen == 2

\* distinct symbols passed to the adapter
MaxSymbols == 3

\* latest monotonic timestamp, in ns
MaxNow == 3

\* largest configured gap, in units of 1/UnitsPerNs ns
MaxGapUnits == 4

\* resolution of the configured gaps: this many units make one nanosecond
UnitsPerNs == 2

\* largest reconnect_min_delay and reconnect_max_delay, in tenths of a second
MaxDelay == 12

\* failed attempts of one reconnect worker whose delays are followed
MaxAttempts == 5

\* latest wall-clock time, in units of ten seconds
MaxClock == 4

\* lifetime of a token the broker SDK returns, in units of ten seconds
TokenLife == 2

\* largest denominator of the ema_alpha and drop_warning_threshold tried
MaxDen == 3

\* Topics the application may subscribe to
Topics == {"a", "b"}
\* The topic used where the session lifecycle is explored in full
LifecycleTopics == {"a"}
Callbacks == {"adapter", "user"}
Clients == 1..MaxGen
Workers == 1..MaxWorkers

\* ------------------------------------------------------------------------
\* State
\* ------------------------------------------------------------------------

VARIABLES
    \* SettradeMQTTClient
    state,             \* self._state
    client,            \* self._client: instance id, 0 = None
    clientGeneration,  \* self._client_generation
    subscriptions,     \* self._subscriptions: topic -> sequence of callbacks
    reconnecting,      \* self._reconnecting
    shutdownEvent,     \* self._shutdown_event
    messagesReceived,  \* self._messages_received
    callbackErrors,    \* self._callback_errors
    reconnectCount,    \* self._reconnect_count
    \* paho client instances, identified by the generation they were made in
    loop,              \* instances whose IO thread is running
    conn,              \* per instance: status of its broker connection
    brokerSubs,        \* per instance: topics SUBSCRIBEd on its connection
    \* threads
    ioPc,              \* per instance: position of its IO thread in a callback
    ioTopics,          \* per instance: _on_connect's local `topics`
    ctl,               \* control thread: connect / subscribe / unsubscribe
    sd,                \* thread running shutdown()
    workers,           \* reconnect worker threads: position in _reconnect_loop
    wNew,              \* reconnect worker's local `new_client`
    timer,             \* token-refresh thread
    \* observation
    lastEvent,         \* last event handed to on_event: <<epoch, connects>>
    connects,          \* transitions to CONNECTED so far (saturating)
    rejected,          \* a frame has been rejected as stale
    lastCalls,         \* callbacks invoked for the last accepted frame, in order
    raised,            \* what the last connect() call raised
    sent,              \* packet issued by the last subscribe() / unsubscribe()
    lastDisconnectTs,  \* self._last_disconnect_ts: which on_disconnect set it
    \* Dispatcher
    maxlen,            \* self._maxlen
    queue,             \* self._queue
    totalPushed,       \* self._total_pushed
    totalPolled,       \* self._total_polled
    totalDropped,      \* self._total_dropped
    dropRateEma,       \* self._drop_rate_ema, an exact fraction <<num, den>>
    warnedDropRate,    \* self._warned_drop_rate
    prod,              \* producer thread: position in push()
    cons,              \* consumer thread: position in poll()
    pushCalls,         \* push() calls made since construction / clear()
    evicted,           \* events the deque evicted since construction / clear()
    received,          \* events returned by poll() so far, in order
    pollRaised,        \* what the last poll() call raised
    discarded,         \* events the last clear() found in the buffer
    emaAlpha,          \* self._ema_alpha, a fraction <<num, den>>
    dropWarningThreshold, \* self._drop_warning_threshold, a fraction
    pushLog,           \* what the last push() logged about the drop rate
    lastLog,           \* the last such message since construction
    lastLogSinceClear, \* the last such message since construction / clear()
    \* BidOfferAdapter
    messagesParsed,        \* self._messages_parsed
    parseErrors,           \* self._parse_errors
    adapterCallbackErrors, \* self._callback_errors
    adapterFrames,         \* frames handed to _on_message so far
    subscribedSymbols,     \* self._subscribed_symbols
    transportSubscribes,   \* topic -> calls of mqtt_client.subscribe so far
    requested,             \* symbols passed to BidOfferAdapter.subscribe so far
    \* FeedHealthMonitor
    maxGapNs,              \* self._max_gap_ns
    perSymbolMaxGapNs,     \* self._per_symbol_max_gap_ns
    globalLastEventMonoNs, \* self._global_last_event_mono_ns: << >> is None
    lastEventMonoNs,       \* self._last_event_mono_ns
    hCall,                 \* the last call on the monitor: <<method, symbol, now>>
    hRet,                  \* what that call returned
    \* --- backoff of one reconnect worker (delays in tenths of a second) ---
    reconnectMinDelay,     \* MQTTClientConfig.reconnect_min_delay
    reconnectMaxDelay,     \* MQTTClientConfig.reconnect_max_delay
    delay,                 \* the local "delay" of _reconnect_loop
    waited,                \* the delay the last wait was derived from
    jitteredDelay,         \* the timeout of that wait, in hundredths
    attempts,              \* failed attempts of this invocation
    bPc,                   \* "idle" or "loop"
    \* --- credential refresh (times in units of ten seconds) ---
    clock,                 \* time.time()
    expiredAt,             \* self._expired_at
    wakeAt                 \* when the refresh thread's timed wait ends

sessionVars == <<state, client, clientGeneration, subscriptions, reconnecting,
                 shutdownEvent, messagesReceived, callbackErrors,
                 reconnectCount, loop, conn, brokerSubs, ioPc, ioTopics, ctl,
                 sd, workers, wNew, timer, lastEvent, connects, rejected,
                 lastCalls, raised, sent, lastDisconnectTs>>

dispVars == <<maxlen, queue, totalPushed, totalPolled, totalDropped,
              dropRateEma, warnedDropRate, prod, cons, pushCalls, evicted,
              received, pollRaised, discarded, emaAlpha,
              dropWarningThreshold, pushLog, lastLog, lastLogSinceClear>>

adapterVars == <<messagesParsed, parseErrors, adapterCallbackErrors,
                 adapterFrames, subscribedSymbols, transportSubscribes,
                 requested>>

healthVars == <<maxGapNs, perSymbolMaxGapNs, globalLastEventMonoNs,
                lastEventMonoNs, hCall, hRet>>

backoffVars == <<reconnectMinDelay, reconnectMaxDelay, delay, waited,
                 jitteredDelay, attempts, bPc>>

refreshVars == <<clock, expiredAt, wakeAt>>

vars == <<sessionVars, dispVars, adapterVars, healthVars, backoffVars,
          refreshVars>>

ClientState == {"INIT", "CONNECTING", "CONNECTED", "RECONNECTING", "SHUTDOWN"}

CtlIdle == [pc |-> "idle", topic |-> "a", isConn |-> FALSE, cb |-> "adapter"]

NoEvent == <<-1, -1>>

\* subscribe() / unsubscribe() issued no packet
NoPacket == << >>

\* self._expired_at = 0.0; the clock starts at 0
RefreshInit ==
    /\ clock = 0
    /\ expiredAt = 0
    /\ wakeAt = 0

\* SettradeMQTTClient.__init__
SessionInit ==
    /\ state = "INIT"
    /\ client = 0
    /\ clientGeneration = 0
    /\ subscriptions = << >>
    /\ reconnecting = FALSE
    /\ shutdownEvent = FALSE
    /\ messagesReceived = 0
    /\ callbackErrors = 0
    /\ reconnectCount = 0
    /\ loop = {}
    /\ conn = [c \in Clients |-> "none"]
    /\ brokerSubs = [c \in Clients |-> {}]
    /\ ioPc = [c \in Clients |-> "idle"]
    /\ ioTopics = [c \in Clients |-> {}]
    /\ ctl = CtlIdle
    /\ sd = "idle"
    /\ workers = [w \in Workers |-> "idle"]
    /\ wNew = [w \in Workers |-> 0]
    /\ timer = "off"
    /\ lastEvent = NoEvent
    /\ connects = 0
    /\ rejected = FALSE
    /\ lastCalls = << >>
    /\ raised = "none"
    /\ sent = NoPacket
    /\ lastDisconnectTs = "none"

ProdIdle == [pc |-> "idle", dropped |-> FALSE]

ConsIdle == [pc |-> "idle", left |-> 0, events |-> << >>]

\* DispatcherConfig.ema_alpha, as a fraction in (0, 1]
EmaAlpha == <<1, 2>>

\* DispatcherConfig.drop_warning_threshold, as a fraction in (0, 1]
DropWarningThreshold == <<1, 4>>

\* Dispatcher.__init__ with DispatcherConfig(maxlen = cap, ema_alpha = alpha,
\* drop_warning_threshold = threshold)
DispatcherInitWith(cap, alpha, threshold) ==
    /\ maxlen = cap
    /\ emaAlpha = alpha
    /\ dropWarningThreshold = threshold
    /\ pushLog = {}
    /\ lastLog = "none"
    /\ lastLogSinceClear = "none"
    /\ queue = << >>
    /\ totalPushed = 0
    /\ totalPolled = 0
    /\ totalDropped = 0
    /\ dropRateEma = <<0, 1>>
    /\ warnedDropRate = FALSE
    /\ prod = ProdIdle
    /\ cons = ConsIdle
    /\ pushCalls = 0
    /\ evicted = 0
    /\ received = << >>
    /\ pollRaised = "none"
    /\ discarded = 0

\* Dispatcher.__init__ with DispatcherConfig(maxlen = cap)
DispatcherInit(cap) == DispatcherInitWith(cap, EmaAlpha, DropWarningThreshold)

\* BidOfferAdapter.__init__
AdapterInit ==
    /\ messagesParsed = 0
    /\ parseErrors = 0
    /\ adapterCallbackErrors = 0
    /\ adapterFrames = 0
    /\ subscribedSymbols = {}
    /\ transportSubscribes = << >>
    /\ requested = {}

\* ------------------------------------------------------------------------
\* Helpers
\* ------------------------------------------------------------------------

Min(a, b) == IF a < b THEN a ELSE b

\* First idle thread slot: threading.Thread(target=self._reconnect_loop).start()
FreeWorker == CHOOSE w \in Workers :
                 /\ workers[w] = "idle"
                 /\ \A v \in Workers : workers[v] = "idle" => w <= v

ActiveWorkers == {w \in Workers : workers[w] # "idle"}

\* The subscription lock is held across both steps of subscribe/unsubscribe.
SubLockFree == ctl.pc \notin {"sub_send", "unsub_send"}

\* A connection the broker still knows: SUBSCRIBE / UNSUBSCRIBE reach it.
Open(c) == conn[c] \in {"tcp", "up", "closing"}

\* paho disconnect() on instance c, with lp the running IO threads: a client
\* whose IO thread still runs reports the clean disconnect through
\* on_disconnect(rc = 0); without a thread the socket is just closed.
Disconnected(c, cn, lp) ==
    IF cn[c] \in {"tcp", "up"}
    THEN [cn EXCEPT ![c] = IF c \in lp THEN "closing" ELSE "closed"]
    ELSE IF cn[c] = "refused" THEN [cn EXCEPT ![c] = "closed"]
    ELSE cn

\* Clean session: the broker forgets the subscriptions of a closed connection.
Forget(bs, cn) ==
    [c \in Clients |-> IF cn[c] \in {"tcp", "up", "closing"} THEN bs[c] ELSE {}]

\* loop_stop() joins the IO thread: it returns only when no callback runs.
CanJoin(c) == IF c \in loop THEN ioPc[c] = "idle" ELSE TRUE

\* _schedule_reconnect as it would be without the guard flag
ScheduleReconnectUnguarded ==
    IF state = "SHUTDOWN"
    THEN UNCHANGED <<state, reconnecting, workers>>
    ELSE /\ state' = "RECONNECTING"
         /\ reconnecting' = TRUE
         /\ workers' = [workers EXCEPT ![FreeWorker] = "check"]

\* _schedule_reconnect: the guard flag, the SHUTDOWN check and the spawn.
ScheduleReconnect ==
    IF reconnecting
    THEN UNCHANGED <<state, reconnecting, workers>>
    ELSE IF state = "SHUTDOWN"
    THEN UNCHANGED <<state, reconnecting, workers>>
    ELSE /\ state' = "RECONNECTING"
         /\ reconnecting' = TRUE
         /\ workers' = [workers EXCEPT ![FreeWorker] = "check"]

\* _create_mqtt_client: best-effort cleanup of self._client (loop_stop and
\* disconnect may each raise, which is swallowed), then a new generation.
CreateMqttClient(stopOk, discOk) ==
    /\ IF stopOk /\ client # 0 THEN CanJoin(client) ELSE TRUE
    /\ LET lp == IF client # 0 /\ stopOk THEN loop \ {client} ELSE loop
           cn == IF client # 0 /\ discOk
                 THEN Disconnected(client, conn, lp) ELSE conn
       IN /\ loop' = lp
          /\ conn' = cn
          /\ brokerSubs' = Forget(brokerSubs, cn)
    /\ clientGeneration' = clientGeneration + 1

\* ------------------------------------------------------------------------
\* Control thread: connect()
\* ------------------------------------------------------------------------

\* connect(), state check under the state lock: INIT -> CONNECTING
ConnectBegin ==
    /\ ctl.pc = "idle"
    /\ state = "INIT"
    /\ state' = "CONNECTING"
    /\ ctl' = [ctl EXCEPT !.pc = "c_auth"]
    /\ raised' = "none"
    /\ UNCHANGED <<client, clientGeneration, subscriptions, reconnecting,
                   shutdownEvent, messagesReceived, callbackErrors,
                   reconnectCount, loop, conn, brokerSubs, ioPc, ioTopics,
                   sd, workers, wNew, timer, lastEvent, connects, rejected,
                   lastCalls, sent, lastDisconnectTs, dispVars, adapterVars,
                   healthVars, backoffVars, refreshVars>>

\* connect() as it would be without its state check
ConnectRejectedProceeds ==
    /\ ctl.pc = "idle"
    /\ state # "INIT"
    /\ state' = "CONNECTING"
    /\ ctl' = [ctl EXCEPT !.pc = "c_auth"]
    /\ raised' = "none"
    /\ UNCHANGED <<client, clientGeneration, subscriptions, reconnecting,
                   shutdownEvent, messagesReceived, callbackErrors,
                   reconnectCount, loop, conn, brokerSubs, ioPc, ioTopics,
                   sd, workers, wNew, timer, lastEvent, connects, rejected,
                   lastCalls, sent, lastDisconnectTs, dispVars, adapterVars,
                   healthVars, backoffVars, refreshVars>>

\* connect() in any other state raises RuntimeError and changes nothing
ConnectRejected ==
    /\ ctl.pc = "idle"
    /\ state # "INIT"
    /\ raised' = "RuntimeError"
    /\ UNCHANGED <<state, client, clientGeneration, subscriptions,
                   reconnecting, shutdownEvent, messagesReceived,
                   callbackErrors, reconnectCount, loop, conn, brokerSubs,
                   ioPc, ioTopics, ctl, sd, workers, wNew, timer, lastEvent,
                   connects, rejected, lastCalls, sent, lastDisconnectTs,
                   dispVars, adapterVars, healthVars, backoffVars,
                   refreshVars>>

\* connect() as it would be if a failed login were retried in the
\* background instead of being left to the caller
ConnectAuthRetries(ok) ==
    /\ ctl.pc = "c_auth"
    /\ ctl' = [ctl EXCEPT !.pc = IF ok THEN "c_create" ELSE "idle"]
    /\ raised' = IF ok THEN raised ELSE "Exception"
    /\ IF ok THEN UNCHANGED <<state, reconnecting, workers>>
             ELSE ScheduleReconnect
    /\ expiredAt' = IF ok THEN clock + TokenLife ELSE expiredAt
    /\ UNCHANGED <<client, clientGeneration, subscriptions, shutdownEvent,
                   messagesReceived, callbackErrors, reconnectCount, loop,
                   conn, brokerSubs, ioPc, ioTopics, sd, wNew, timer,
                   lastEvent, connects, rejected, lastCalls, sent,
                   lastDisconnectTs, dispVars, adapterVars, healthVars,
                   backoffVars, clock, wakeAt>>

\* self._login(); self._fetch_host_token(): either may raise, and the
\* exception leaves connect()
ConnectAuth(ok) ==
    /\ ctl.pc = "c_auth"
    /\ ctl' = [ctl EXCEPT !.pc = IF ok THEN "c_create" ELSE "idle"]
    /\ raised' = IF ok THEN raised ELSE "Exception"
    /\ expiredAt' = IF ok THEN clock + TokenLife ELSE expiredAt
    /\ UNCHANGED <<state, client, clientGeneration, subscriptions,
                   reconnecting, shutdownEvent, messagesReceived,
                   callbackErrors, reconnectCount, loop, conn, brokerSubs,
                   ioPc, ioTopics, sd, workers, wNew, timer, lastEvent,
                   connects, rejected, lastCalls, sent, lastDisconnectTs,
                   dispVars, adapterVars, healthVars, backoffVars, clock,
                   wakeAt>>

\* self._client = self._create_mqtt_client()
ConnectCreate ==
    /\ ctl.pc = "c_create"
    /\ \E stopOk, discOk \in BOOLEAN :
          /\ client = 0 => (stopOk /\ discOk)
          /\ CreateMqttClient(stopOk, discOk)
    /\ client' = clientGeneration'
    /\ ctl' = [ctl EXCEPT !.pc = "c_tcp"]
    /\ UNCHANGED <<state, subscriptions, reconnecting, shutdownEvent,
                   messagesReceived, callbackErrors, reconnectCount, ioPc,
                   ioTopics, sd, workers, wNew, timer, lastEvent, connects,
                   rejected, lastCalls, raised, sent, lastDisconnectTs,
                   dispVars, adapterVars, healthVars, backoffVars,
                   refreshVars>>

\* self._client.connect(host, port, keepalive): may raise
ConnectTcp(ok) ==
    /\ ctl.pc = "c_tcp"
    /\ conn' = IF ok THEN [conn EXCEPT ![client] = "tcp"] ELSE conn
    /\ ctl' = [ctl EXCEPT !.pc = IF ok THEN "c_loop" ELSE "idle"]
    /\ raised' = IF ok THEN raised ELSE "Exception"
    /\ UNCHANGED <<state, client, clientGeneration, subscriptions,
                   reconnecting, shutdownEvent, messagesReceived,
                   callbackErrors, reconnectCount, loop, brokerSubs, ioPc,
                   ioTopics, sd, workers, wNew, timer, lastEvent, connects,
                   rejected, lastCalls, sent, lastDisconnectTs, dispVars,
                   adapterVars, healthVars, backoffVars, refreshVars>>

\* self._client.loop_start()
ConnectLoopStart ==
    /\ ctl.pc = "c_loop"
    /\ loop' = loop \cup {client}
    /\ ctl' = [ctl EXCEPT !.pc = "c_timer"]
    /\ UNCHANGED <<state, client, clientGeneration, subscriptions,
                   reconnecting, shutdownEvent, messagesReceived,
                   callbackErrors, reconnectCount, conn, brokerSubs, ioPc,
                   ioTopics, sd, workers, wNew, timer, lastEvent, connects,
                   rejected, lastCalls, raised, sent, lastDisconnectTs,
                   dispVars, adapterVars, healthVars, backoffVars,
                   refreshVars>>

\* self._start_token_refresh_timer(); connect() returns
ConnectTimer ==
    /\ ctl.pc = "c_timer"
    /\ timer' = "running"
    /\ ctl' = [ctl EXCEPT !.pc = "idle"]
    /\ UNCHANGED <<state, client, clientGeneration, subscriptions,
                   reconnecting, shutdownEvent, messagesReceived,
                   callbackErrors, reconnectCount, loop, conn, brokerSubs,
                   ioPc, ioTopics, sd, workers, wNew, lastEvent, connects,
                   rejected, lastCalls, raised, sent, lastDisconnectTs,
                   dispVars, adapterVars, healthVars, backoffVars,
                   refreshVars>>

\* The steps of connect() after its state check
ConnectStep ==
    \/ \E ok \in BOOLEAN : ConnectAuth(ok)
    \/ ConnectCreate
    \/ \E ok \in BOOLEAN : ConnectTcp(ok)
    \/ ConnectLoopStart
    \/ ConnectTimer

\* ------------------------------------------------------------------------
\* Control thread: subscribe() / unsubscribe()
\* ------------------------------------------------------------------------

\* subscribe(), topic already registered: append the callback only
SubscribeExisting(topic, cb) ==
    /\ ctl.pc = "idle"
    /\ topic \in DOMAIN subscriptions
    /\ Len(subscriptions[topic]) < MaxCallbacks
    /\ subscriptions' = [subscriptions EXCEPT ![topic] = Append(@, cb)]
    /\ sent' = NoPacket
    /\ UNCHANGED <<state, client, clientGeneration, reconnecting,
                   shutdownEvent, messagesReceived, callbackErrors,
                   reconnectCount, loop, conn, brokerSubs, ioPc, ioTopics,
                   ctl, sd, workers, wNew, timer, lastEvent, connects,
                   rejected, lastCalls, raised, lastDisconnectTs, dispVars,
                   adapterVars, healthVars, backoffVars, refreshVars>>

\* subscribe(), new topic: create the entry and read the state, holding
\* the subscription lock
SubscribeBegin(topic, cb) ==
    /\ ctl.pc = "idle"
    /\ topic \notin DOMAIN subscriptions
    /\ subscriptions' = subscriptions @@ (topic :> << >>)
    /\ ctl' = [pc |-> "sub_send", topic |-> topic,
               isConn |-> (state = "CONNECTED"), cb |-> cb]
    /\ sent' = NoPacket
    /\ UNCHANGED <<state, client, clientGeneration, reconnecting,
                   shutdownEvent, messagesReceived, callbackErrors,
                   reconnectCount, loop, conn, brokerSubs, ioPc, ioTopics,
                   sd, workers, wNew, timer, lastEvent, connects, rejected,
                   lastCalls, raised, lastDisconnectTs, dispVars,
                   adapterVars, healthVars, backoffVars, refreshVars>>

\* subscribe() as it would be if it sent whenever a client instance exists
SubscribeSendAnyState ==
    /\ ctl.pc = "sub_send"
    /\ brokerSubs' = IF client # 0 /\ Open(client)
                     THEN [brokerSubs EXCEPT ![client] = @ \cup {ctl.topic}]
                     ELSE brokerSubs
    /\ sent' = IF client # 0 THEN <<"SUBSCRIBE", ctl.topic>> ELSE NoPacket
    /\ subscriptions' = [subscriptions EXCEPT ![ctl.topic] = Append(@, ctl.cb)]
    /\ ctl' = CtlIdle
    /\ UNCHANGED <<state, client, clientGeneration, reconnecting,
                   shutdownEvent, messagesReceived, callbackErrors,
                   reconnectCount, loop, conn, ioPc, ioTopics, sd, workers,
                   wNew, timer, lastEvent, connects, rejected, lastCalls,
                   raised, lastDisconnectTs, dispVars, adapterVars,
                   healthVars, backoffVars, refreshVars>>

\* subscribe(), new topic: self._client.subscribe(topic) if connected, then
\* append the callback and release the lock
SubscribeSend ==
    /\ ctl.pc = "sub_send"
    /\ brokerSubs' = IF ctl.isConn /\ client # 0 /\ Open(client)
                     THEN [brokerSubs EXCEPT ![client] = @ \cup {ctl.topic}]
                     ELSE brokerSubs
    /\ sent' = IF ctl.isConn /\ client # 0
               THEN <<"SUBSCRIBE", ctl.topic>> ELSE NoPacket
    /\ subscriptions' = [subscriptions EXCEPT ![ctl.topic] = Append(@, ctl.cb)]
    /\ ctl' = CtlIdle
    /\ UNCHANGED <<state, client, clientGeneration, reconnecting,
                   shutdownEvent, messagesReceived, callbackErrors,
                   reconnectCount, loop, conn, ioPc, ioTopics, sd, workers,
                   wNew, timer, lastEvent, connects, rejected, lastCalls,
                   raised, lastDisconnectTs, dispVars, adapterVars,
                   healthVars, backoffVars, refreshVars>>

\* unsubscribe(), registered topic: delete the entry and read the state,
\* holding the subscription lock
UnsubscribeBegin(topic) ==
    /\ ctl.pc = "idle"
    /\ topic \in DOMAIN subscriptions
    /\ subscriptions' = [t \in DOMAIN subscriptions \ {topic} |->
                            subscriptions[t]]
    /\ ctl' = [pc |-> "unsub_send", topic |-> topic,
               isConn |-> (state = "CONNECTED"), cb |-> "adapter"]
    /\ sent' = NoPacket
    /\ UNCHANGED <<state, client, clientGeneration, reconnecting,
                   shutdownEvent, messagesReceived, callbackErrors,
                   reconnectCount, loop, conn, brokerSubs, ioPc, ioTopics,
                   sd, workers, wNew, timer, lastEvent, connects, rejected,
                   lastCalls, raised, lastDisconnectTs, dispVars,
                   adapterVars, healthVars, backoffVars, refreshVars>>

\* unsubscribe() as it would be if it sent whenever a client instance exists
UnsubscribeSendAnyState ==
    /\ ctl.pc = "unsub_send"
    /\ brokerSubs' = IF client # 0
                     THEN [brokerSubs EXCEPT ![client] = @ \ {ctl.topic}]
                     ELSE brokerSubs
    /\ sent' = IF client # 0 THEN <<"UNSUBSCRIBE", ctl.topic>> ELSE NoPacket
    /\ ctl' = CtlIdle
    /\ UNCHANGED <<state, client, clientGeneration, subscriptions,
                   reconnecting, shutdownEvent, messagesReceived,
                   callbackErrors, reconnectCount, loop, conn, ioPc,
                   ioTopics, sd, workers, wNew, timer, lastEvent, connects,
                   rejected, lastCalls, raised, lastDisconnectTs, dispVars,
                   adapterVars, healthVars, backoffVars, refreshVars>>

\* unsubscribe(), registered topic: self._client.unsubscribe(topic) if
\* connected, then release the lock
UnsubscribeSend ==
    /\ ctl.pc = "unsub_send"
    /\ brokerSubs' = IF ctl.isConn /\ client # 0
                     THEN [brokerSubs EXCEPT ![client] = @ \ {ctl.topic}]
                     ELSE brokerSubs
    /\ sent' = IF ctl.isConn /\ client # 0
               THEN <<"UNSUBSCRIBE", ctl.topic>> ELSE NoPacket
    /\ ctl' = CtlIdle
    /\ UNCHANGED <<state, client, clientGeneration, subscriptions,
                   reconnecting, shutdownEvent, messagesReceived,
                   callbackErrors, reconnectCount, loop, conn, ioPc,
                   ioTopics, sd, workers, wNew, timer, lastEvent, connects,
                   rejected, lastCalls, raised, lastDisconnectTs, dispVars,
                   adapterVars, healthVars, backoffVars, refreshVars>>

\* unsubscribe(), unknown topic: nothing happens
UnsubscribeUnknown(topic) ==
    /\ ctl.pc = "idle"
    /\ topic \notin DOMAIN subscriptions
    /\ sent' = NoPacket
    /\ UNCHANGED <<state, client, clientGeneration, subscriptions,
                   reconnecting, shutdownEvent, messagesReceived,
                   callbackErrors, reconnectCount, loop, conn, brokerSubs,
                   ioPc, ioTopics, ctl, sd, workers, wNew, timer, lastEvent,
                   connects, rejected, lastCalls, raised, lastDisconnectTs,
                   dispVars, adapterVars, healthVars, backoffVars,
                   refreshVars>>

\* ------------------------------------------------------------------------
\* shutdown(), callable from any thread
\* ------------------------------------------------------------------------

\* shutdown(), under the state lock: any state -> SHUTDOWN
ShutdownBegin ==
    /\ sd = "idle"
    /\ state # "SHUTDOWN"
    /\ state' = "SHUTDOWN"
    /\ sd' = "set_event"
    /\ UNCHANGED <<client, clientGeneration, subscriptions, reconnecting,
                   shutdownEvent, messagesReceived, callbackErrors,
                   reconnectCount, loop, conn, brokerSubs, ioPc, ioTopics,
                   ctl, workers, wNew, timer, lastEvent, connects, rejected,
                   lastCalls, raised, sent, lastDisconnectTs, dispVars,
                   adapterVars, healthVars, backoffVars, refreshVars>>

\* shutdown() when already SHUTDOWN returns at once
ShutdownAgain ==
    /\ sd = "idle"
    /\ state = "SHUTDOWN"
    /\ UNCHANGED <<state, client, clientGeneration, subscriptions,
                   reconnecting, shutdownEvent, messagesReceived,
                   callbackErrors, reconnectCount, loop, conn, brokerSubs,
                   ioPc, ioTopics, ctl, sd, workers, wNew, timer, lastEvent,
                   connects, rejected, lastCalls, raised, sent,
                   lastDisconnectTs, dispVars, adapterVars, healthVars,
                   backoffVars, refreshVars>>

\* self._shutdown_event.set()
ShutdownSetEvent ==
    /\ sd = "set_event"
    /\ shutdownEvent' = TRUE
    /\ sd' = "loop_stop"
    /\ UNCHANGED <<state, client, clientGeneration, subscriptions,
                   reconnecting, messagesReceived, callbackErrors,
                   reconnectCount, loop, conn, brokerSubs, ioPc, ioTopics,
                   ctl, workers, wNew, timer, lastEvent, connects, rejected,
                   lastCalls, raised, sent, lastDisconnectTs, dispVars,
                   adapterVars, healthVars, backoffVars, refreshVars>>

\* if self._client is not None: self._client.loop_stop()  (may raise)
ShutdownLoopStop(ok) ==
    /\ sd = "loop_stop"
    /\ IF client = 0
       THEN /\ ok
            /\ sd' = "idle"
            /\ loop' = loop
       ELSE /\ IF ok THEN CanJoin(client) ELSE TRUE
            /\ loop' = IF ok THEN loop \ {client} ELSE loop
            /\ sd' = "disconnect"
    /\ UNCHANGED <<state, client, clientGeneration, subscriptions,
                   reconnecting, shutdownEvent, messagesReceived,
                   callbackErrors, reconnectCount, conn, brokerSubs, ioPc,
                   ioTopics, ctl, workers, wNew, timer, lastEvent, connects,
                   rejected, lastCalls, raised, sent, lastDisconnectTs,
                   dispVars, adapterVars, healthVars, backoffVars,
                   refreshVars>>

\* self._client.disconnect()  (may raise); shutdown() returns
ShutdownDisconnect(ok) ==
    /\ sd = "disconnect"
    /\ LET cn == IF ok THEN Disconnected(client, conn, loop) ELSE conn
       IN /\ conn' = cn
          /\ brokerSubs' = Forget(brokerSubs, cn)
    /\ sd' = "idle"
    /\ UNCHANGED <<state, client, clientGeneration, subscriptions,
                   reconnecting, shutdownEvent, messagesReceived,
                   callbackErrors, reconnectCount, loop, ioPc, ioTopics,
                   ctl, workers, wNew, timer, lastEvent, connects, rejected,
                   lastCalls, raised, sent, lastDisconnectTs, dispVars,
                   adapterVars, healthVars, backoffVars, refreshVars>>

\* ------------------------------------------------------------------------
\* IO thread of client instance c: paho callbacks
\* ------------------------------------------------------------------------

\* The IO thread of c runs and is between two callbacks.
IoReady(c) == c \in loop /\ ioPc[c] = "idle"

\* _on_connect(rc = 0): state := CONNECTED under the state lock
OnConnectOk(c) ==
    /\ IoReady(c)
    /\ conn[c] = "tcp"
    /\ conn' = [conn EXCEPT ![c] = "up"]
    /\ state' = "CONNECTED"
    /\ connects' = Min(connects + 1, MaxConnects)
    /\ ioPc' = [ioPc EXCEPT ![c] = "oc_snapshot"]
    /\ UNCHANGED <<client, clientGeneration, subscriptions, reconnecting,
                   shutdownEvent, messagesReceived, callbackErrors,
                   reconnectCount, loop, brokerSubs, ioTopics, ctl, sd,
                   workers, wNew, timer, lastEvent, rejected, lastCalls,
                   raised, sent, lastDisconnectTs, dispVars, adapterVars,
                   healthVars, backoffVars, refreshVars>>

\* _on_connect(rc = 0): topics = list(self._subscriptions.keys()) under
\* the subscription lock
OnConnectSnapshot(c) ==
    /\ ioPc[c] = "oc_snapshot"
    /\ SubLockFree
    /\ ioTopics' = [ioTopics EXCEPT ![c] = DOMAIN subscriptions]
    /\ ioPc' = [ioPc EXCEPT ![c] = "oc_replay"]
    /\ UNCHANGED <<state, client, clientGeneration, subscriptions,
                   reconnecting, shutdownEvent, messagesReceived,
                   callbackErrors, reconnectCount, loop, conn, brokerSubs,
                   ctl, sd, workers, wNew, timer, lastEvent, connects,
                   rejected, lastCalls, raised, sent, lastDisconnectTs,
                   dispVars, adapterVars, healthVars, backoffVars,
                   refreshVars>>

\* _on_connect(rc = 0) as it would be if the replay went to self._client
\* instead of the client the callback was delivered for
OnConnectReplayCurrent(c) ==
    /\ ioPc[c] = "oc_replay"
    /\ brokerSubs' = IF client # 0 /\ Open(client)
                     THEN [brokerSubs EXCEPT ![client] = @ \cup ioTopics[c]]
                     ELSE brokerSubs
    /\ ioTopics' = [ioTopics EXCEPT ![c] = {}]
    /\ ioPc' = [ioPc EXCEPT ![c] = "idle"]
    /\ UNCHANGED <<state, client, clientGeneration, subscriptions,
                   reconnecting, shutdownEvent, messagesReceived,
                   callbackErrors, reconnectCount, loop, conn, ctl, sd,
                   workers, wNew, timer, lastEvent, connects, rejected,
                   lastCalls, raised, sent, lastDisconnectTs, dispVars,
                   adapterVars, healthVars, backoffVars, refreshVars>>

\* _on_connect(rc = 0): for topic in topics: client.subscribe(topic)
OnConnectReplay(c) ==
    /\ ioPc[c] = "oc_replay"
    /\ brokerSubs' = IF Open(c)
                     THEN [brokerSubs EXCEPT ![c] = @ \cup ioTopics[c]]
                     ELSE brokerSubs
    /\ ioTopics' = [ioTopics EXCEPT ![c] = {}]
    /\ ioPc' = [ioPc EXCEPT ![c] = "idle"]
    /\ UNCHANGED <<state, client, clientGeneration, subscriptions,
                   reconnecting, shutdownEvent, messagesReceived,
                   callbackErrors, reconnectCount, loop, conn, ctl, sd,
                   workers, wNew, timer, lastEvent, connects, rejected,
                   lastCalls, raised, sent, lastDisconnectTs, dispVars,
                   adapterVars, healthVars, backoffVars, refreshVars>>

\* _on_connect(rc # 0): self._schedule_reconnect()
OnConnectFail(c) ==
    /\ IoReady(c)
    /\ conn[c] = "tcp"
    /\ LET cn == [conn EXCEPT ![c] = "refused"]
       IN /\ conn' = cn
          /\ brokerSubs' = Forget(brokerSubs, cn)
    /\ ScheduleReconnect
    /\ UNCHANGED <<client, clientGeneration, subscriptions, shutdownEvent,
                   messagesReceived, callbackErrors, reconnectCount, loop,
                   ioPc, ioTopics, ctl, sd, wNew, timer, lastEvent,
                   connects, rejected, lastCalls, raised, sent,
                   lastDisconnectTs, dispVars, adapterVars, healthVars,
                   backoffVars, refreshVars>>

\* _on_disconnect(rc # 0): return in SHUTDOWN, else schedule a reconnect
OnDisconnectUnexpected(c) ==
    /\ IoReady(c)
    /\ conn[c] \in {"tcp", "up", "refused"}
    /\ LET cn == [conn EXCEPT ![c] = "closed"]
       IN /\ conn' = cn
          /\ brokerSubs' = Forget(brokerSubs, cn)
    /\ lastDisconnectTs' = "unexpected"
    /\ IF state = "SHUTDOWN"
       THEN UNCHANGED <<state, reconnecting, workers>>
       ELSE ScheduleReconnect
    /\ UNCHANGED <<client, clientGeneration, subscriptions, shutdownEvent,
                   messagesReceived, callbackErrors, reconnectCount, loop,
                   ioPc, ioTopics, ctl, sd, wNew, timer, lastEvent,
                   connects, rejected, lastCalls, raised, sent, dispVars,
                   adapterVars, healthVars, backoffVars, refreshVars>>

\* _on_disconnect(rc = 0) as it would be if a clean disconnect scheduled a
\* reconnect
OnDisconnectCleanReconnects(c) ==
    /\ IoReady(c)
    /\ conn[c] = "closing"
    /\ LET cn == [conn EXCEPT ![c] = "closed"]
       IN /\ conn' = cn
          /\ brokerSubs' = Forget(brokerSubs, cn)
    /\ loop' = loop \ {c}
    /\ lastDisconnectTs' = "clean"
    /\ ScheduleReconnect
    /\ UNCHANGED <<client, clientGeneration, subscriptions, shutdownEvent,
                   messagesReceived, callbackErrors, reconnectCount, ioPc,
                   ioTopics, ctl, sd, wNew, timer, lastEvent, connects,
                   rejected, lastCalls, raised, sent, dispVars, adapterVars,
                   healthVars, backoffVars, refreshVars>>

\* _on_disconnect(rc = 0): stamped and logged only; the IO thread of a client that was
\* told to disconnect then ends
OnDisconnectClean(c) ==
    /\ IoReady(c)
    /\ conn[c] = "closing"
    /\ LET cn == [conn EXCEPT ![c] = "closed"]
       IN /\ conn' = cn
          /\ brokerSubs' = Forget(brokerSubs, cn)
    /\ loop' = loop \ {c}
    /\ lastDisconnectTs' = "clean"
    /\ UNCHANGED <<state, client, clientGeneration, subscriptions,
                   reconnecting, shutdownEvent, messagesReceived,
                   callbackErrors, reconnectCount, ioPc, ioTopics, ctl, sd,
                   workers, wNew, timer, lastEvent, connects, rejected,
                   lastCalls, raised, sent, dispVars, adapterVars,
                   healthVars, backoffVars, refreshVars>>

\* connection_epoch is not passed to model_construct: the field default
DefaultConnectionEpoch == 0

\* BidOfferAdapter._parse_best_bid_ask: the epoch stamped on an event
StampedEpoch == DefaultConnectionEpoch

\* _on_message as it would be without the generation check
AnyGeneration(generation) == TRUE

\* _on_message: the generation bound by the lambda of _create_mqtt_client
\* against the current one
GenerationMatches(generation) == generation = clientGeneration

\* Callbacks registered for a topic: self._subscriptions.get(topic)
CallbacksOf(topic) ==
    IF topic \in DOMAIN subscriptions THEN subscriptions[topic] ELSE << >>

RECURSIVE RunCallbacksStopAtFailure(_, _, _)
\* the callback loop as it would be without the try/except around each call
RunCallbacksStopAtFailure(cbs, fails, i) ==
    IF i > Len(cbs)
    THEN [calls |-> << >>, errors |-> 0]
    ELSE IF i \in fails
    THEN [calls |-> <<i>>, errors |-> 1]
    ELSE LET rest == RunCallbacksStopAtFailure(cbs, fails, i + 1)
         IN [calls |-> <<i>> \o rest.calls, errors |-> rest.errors]

RECURSIVE RunCallbacks(_, _, _)
\* _on_message: for cb in callbacks: try: cb(topic, payload) except: count.
\* From position i on: the positions called, in order, and the failures
\* counted; fails are the positions whose callback raises.
RunCallbacks(cbs, fails, i) ==
    IF i > Len(cbs)
    THEN [calls |-> << >>, errors |-> 0]
    ELSE LET rest == RunCallbacks(cbs, fails, i + 1)
         IN [calls |-> <<i>> \o rest.calls,
             errors |-> (IF i \in fails THEN 1 ELSE 0) + rest.errors]

\* _on_message(generation = c) for a frame of a topic the connection is
\* subscribed to: reject a stale generation, else count the frame and call
\* every callback of the topic, isolating failures.  The adapter callback
\* never raises; on a successful parse it emits one event.
OnMessage(c, topic, parseOk, fails) ==
    /\ IoReady(c)
    /\ conn[c] \in {"up", "closing"}
    /\ topic \in brokerSubs[c]
    /\ IF ~GenerationMatches(c)
       THEN /\ rejected' = TRUE
            /\ UNCHANGED <<messagesReceived, callbackErrors, lastEvent,
                           lastCalls>>
       ELSE LET cbs == CallbacksOf(topic)
                users == {i \in 1..Len(cbs) : cbs[i] = "user"}
                adapters == {i \in 1..Len(cbs) : cbs[i] = "adapter"}
                run == RunCallbacks(cbs, fails, 1)
            IN /\ messagesReceived < MaxMsgs
               /\ fails \subseteq users
               /\ parseOk \/ adapters # {}
               /\ messagesReceived' = messagesReceived + 1
               /\ callbackErrors' = callbackErrors + run.errors
               /\ lastCalls' = run.calls
               /\ lastEvent' = IF parseOk /\ adapters # {}
                               THEN <<StampedEpoch, connects>>
                               ELSE lastEvent
               /\ UNCHANGED rejected
    /\ UNCHANGED <<state, client, clientGeneration, subscriptions,
                   reconnecting, shutdownEvent, reconnectCount, loop, conn,
                   brokerSubs, ioPc, ioTopics, ctl, sd, workers, wNew,
                   timer, connects, raised, sent, lastDisconnectTs,
                   dispVars, adapterVars, healthVars, backoffVars,
                   refreshVars>>

\* ------------------------------------------------------------------------
\* Reconnect worker w: _reconnect_loop
\* ------------------------------------------------------------------------

\* while not self._shutdown_event.is_set(): leave the loop when it is set
WExit(w) ==
    /\ workers[w] = "check"
    /\ shutdownEvent
    /\ workers' = [workers EXCEPT ![w] = "finally"]
    /\ UNCHANGED <<state, client, clientGeneration, subscriptions,
                   reconnecting, shutdownEvent, messagesReceived,
                   callbackErrors, reconnectCount, loop, conn, brokerSubs,
                   ioPc, ioTopics, ctl, sd, wNew, timer, lastEvent,
                   connects, rejected, lastCalls, raised, sent,
                   lastDisconnectTs, dispVars, adapterVars, healthVars,
                   backoffVars, refreshVars>>

\* self._fetch_host_token() succeeds
WFetch(w) ==
    /\ workers[w] = "check"
    /\ ~shutdownEvent
    /\ clientGeneration < MaxGen
    /\ workers' = [workers EXCEPT ![w] = "create"]
    /\ expiredAt' = clock + TokenLife
    /\ UNCHANGED <<state, client, clientGeneration, subscriptions,
                   reconnecting, shutdownEvent, messagesReceived,
                   callbackErrors, reconnectCount, loop, conn, brokerSubs,
                   ioPc, ioTopics, ctl, sd, wNew, timer, lastEvent,
                   connects, rejected, lastCalls, raised, sent,
                   lastDisconnectTs, dispVars, adapterVars, healthVars,
                   backoffVars, clock, wakeAt>>

\* self._fetch_host_token() raises: jittered wait, delay doubles, next turn
WFetchFail(w) ==
    /\ workers[w] = "check"
    /\ ~shutdownEvent
    /\ UNCHANGED <<state, client, clientGeneration, subscriptions,
                   reconnecting, shutdownEvent, messagesReceived,
                   callbackErrors, reconnectCount, loop, conn, brokerSubs,
                   ioPc, ioTopics, ctl, sd, workers, wNew, timer, lastEvent,
                   connects, rejected, lastCalls, raised, sent,
                   lastDisconnectTs, dispVars, adapterVars, healthVars,
                   backoffVars, refreshVars>>

\* new_client = self._create_mqtt_client()
WCreate(w) ==
    /\ workers[w] = "create"
    /\ \E stopOk, discOk \in BOOLEAN :
          /\ client = 0 => (stopOk /\ discOk)
          /\ CreateMqttClient(stopOk, discOk)
    /\ wNew' = [wNew EXCEPT ![w] = clientGeneration']
    /\ workers' = [workers EXCEPT ![w] = "connect"]
    /\ UNCHANGED <<state, client, subscriptions, reconnecting,
                   shutdownEvent, messagesReceived, callbackErrors,
                   reconnectCount, ioPc, ioTopics, ctl, sd, timer,
                   lastEvent, connects, rejected, lastCalls, raised, sent,
                   lastDisconnectTs, dispVars, adapterVars, healthVars,
                   backoffVars, refreshVars>>

\* new_client.connect(host, port, keepalive); on an exception: jittered
\* wait, delay doubles, next turn of the loop
WConnect(w, ok) ==
    /\ workers[w] = "connect"
    /\ conn' = IF ok THEN [conn EXCEPT ![wNew[w]] = "tcp"] ELSE conn
    /\ workers' = [workers EXCEPT ![w] = IF ok THEN "loop_start" ELSE "check"]
    /\ UNCHANGED <<state, client, clientGeneration, subscriptions,
                   reconnecting, shutdownEvent, messagesReceived,
                   callbackErrors, reconnectCount, loop, brokerSubs, ioPc,
                   ioTopics, ctl, sd, wNew, timer, lastEvent, connects,
                   rejected, lastCalls, raised, sent, lastDisconnectTs,
                   dispVars, adapterVars, healthVars, backoffVars,
                   refreshVars>>

\* new_client.loop_start()
WLoopStart(w) ==
    /\ workers[w] = "loop_start"
    /\ loop' = loop \cup {wNew[w]}
    /\ workers' = [workers EXCEPT ![w] = "assign"]
    /\ UNCHANGED <<state, client, clientGeneration, subscriptions,
                   reconnecting, shutdownEvent, messagesReceived,
                   callbackErrors, reconnectCount, conn, brokerSubs, ioPc,
                   ioTopics, ctl, sd, wNew, timer, lastEvent, connects,
                   rejected, lastCalls, raised, sent, lastDisconnectTs,
                   dispVars, adapterVars, healthVars, backoffVars,
                   refreshVars>>

\* _reconnect_loop as it would be if TCP success declared the session
\* connected
WAssignConnected(w) ==
    /\ workers[w] = "assign"
    /\ client' = wNew[w]
    /\ reconnectCount' = reconnectCount + 1
    /\ state' = "CONNECTED"
    /\ workers' = [workers EXCEPT ![w] = "finally"]
    /\ UNCHANGED <<clientGeneration, subscriptions, reconnecting,
                   shutdownEvent, messagesReceived, callbackErrors, loop,
                   conn, brokerSubs, ioPc, ioTopics, ctl, sd, wNew, timer,
                   lastEvent, connects, rejected, lastCalls, raised, sent,
                   lastDisconnectTs, dispVars, adapterVars, healthVars,
                   backoffVars, refreshVars>>

\* self._client = new_client; self._reconnect_count += 1; return
WAssign(w) ==
    /\ workers[w] = "assign"
    /\ client' = wNew[w]
    /\ reconnectCount' = reconnectCount + 1
    /\ workers' = [workers EXCEPT ![w] = "finally"]
    /\ UNCHANGED <<state, clientGeneration, subscriptions, reconnecting,
                   shutdownEvent, messagesReceived, callbackErrors, loop,
                   conn, brokerSubs, ioPc, ioTopics, ctl, sd, wNew, timer,
                   lastEvent, connects, rejected, lastCalls, raised, sent,
                   lastDisconnectTs, dispVars, adapterVars, healthVars,
                   backoffVars, refreshVars>>

\* _reconnect_loop as it would be without its finally block
WFinallyKeepsFlag(w) ==
    /\ workers[w] = "finally"
    /\ workers' = [workers EXCEPT ![w] = "idle"]
    /\ wNew' = [wNew EXCEPT ![w] = 0]
    /\ UNCHANGED <<state, client, clientGeneration, subscriptions,
                   reconnecting, shutdownEvent, messagesReceived,
                   callbackErrors, reconnectCount, loop, conn, brokerSubs,
                   ioPc, ioTopics, ctl, sd, timer, lastEvent, connects,
                   rejected, lastCalls, raised, sent, lastDisconnectTs,
                   dispVars, adapterVars, healthVars, backoffVars,
                   refreshVars>>

\* finally: self._reconnecting = False; the thread ends
WFinally(w) ==
    /\ workers[w] = "finally"
    /\ reconnecting' = FALSE
    /\ workers' = [workers EXCEPT ![w] = "idle"]
    /\ wNew' = [wNew EXCEPT ![w] = 0]
    /\ UNCHANGED <<state, client, clientGeneration, subscriptions,
                   shutdownEvent, messagesReceived, callbackErrors,
                   reconnectCount, loop, conn, brokerSubs, ioPc, ioTopics,
                   ctl, sd, timer, lastEvent, connects, rejected, lastCalls,
                   raised, sent, lastDisconnectTs, dispVars, adapterVars,
                   healthVars, backoffVars, refreshVars>>

\* Any step of a reconnect worker
WorkerStep ==
    \E w \in Workers :
        \/ WExit(w)
        \/ WFetch(w)
        \/ WFetchFail(w)
        \/ WCreate(w)
        \/ \E ok \in BOOLEAN : WConnect(w, ok)
        \/ WLoopStart(w)
        \/ WAssign(w)
        \/ WFinally(w)

\* ------------------------------------------------------------------------
\* Token-refresh thread: _token_refresh_check
\* ------------------------------------------------------------------------

\* while not self._shutdown_event.is_set(): the thread ends when it is set
TimerExit ==
    /\ timer = "running"
    /\ shutdownEvent
    /\ timer' = "done"
    /\ UNCHANGED <<state, client, clientGeneration, subscriptions,
                   reconnecting, shutdownEvent, messagesReceived,
                   callbackErrors, reconnectCount, loop, conn, brokerSubs,
                   ioPc, ioTopics, ctl, sd, workers, wNew, lastEvent,
                   connects, rejected, lastCalls, raised, sent,
                   lastDisconnectTs, dispVars, adapterVars, healthVars,
                   backoffVars, refreshVars>>

\* time_until_refresh <= 0: self._schedule_reconnect(), then wait
TimerFire ==
    /\ timer = "running"
    /\ ~shutdownEvent
    /\ ScheduleReconnect
    /\ UNCHANGED <<client, clientGeneration, subscriptions, shutdownEvent,
                   messagesReceived, callbackErrors, reconnectCount, loop,
                   conn, brokerSubs, ioPc, ioTopics, ctl, sd, wNew, timer,
                   lastEvent, connects, rejected, lastCalls, raised, sent,
                   lastDisconnectTs, dispVars, adapterVars, healthVars,
                   backoffVars, refreshVars>>


\* ------------------------------------------------------------------------
\* _token_refresh_check step by step, against the clock.  timer is
\* "running" at the while condition, "due" between the time check and the
\* call of _schedule_reconnect, "wait" in a timed wait on the shutdown
\* event.
\* ------------------------------------------------------------------------

\* token_refresh_before_exp_seconds: ge=10
RefreshBefore == 1
\* min(time_until_refresh, 60.0)
PollCap == 6

\* expired_at - token_refresh_before_exp_seconds - time.time()
TimeUntilRefresh == expiredAt - RefreshBefore - clock

\* time passes
Tick ==
    /\ clock < MaxClock
    /\ clock' = clock + 1
    /\ UNCHANGED <<expiredAt, wakeAt, sessionVars, dispVars, adapterVars,
                   healthVars, backoffVars>>

\* the while condition finds the event clear; time_until_refresh is read
TimerObserve ==
    /\ timer = "running"
    /\ ~shutdownEvent
    /\ IF TimeUntilRefresh <= 0
          THEN /\ timer' = "due"
               /\ wakeAt' = wakeAt
          ELSE /\ timer' = "wait"
               /\ wakeAt' = clock + Min(TimeUntilRefresh, PollCap)
    /\ UNCHANGED <<state, client, clientGeneration, subscriptions,
                   reconnecting, shutdownEvent, messagesReceived,
                   callbackErrors, reconnectCount, loop, conn, brokerSubs,
                   ioPc, ioTopics, ctl, sd, workers, wNew, lastEvent,
                   connects, rejected, lastCalls, raised, sent,
                   lastDisconnectTs, dispVars, adapterVars, healthVars,
                   backoffVars, clock, expiredAt>>

\* self._schedule_reconnect(); then wait(timeout=reconnect_max_delay)
TimerSchedule ==
    /\ timer = "due"
    /\ ScheduleReconnect
    /\ timer' = "wait"
    /\ wakeAt' = clock + (reconnectMaxDelay \div 100)
    /\ UNCHANGED <<client, clientGeneration, subscriptions, shutdownEvent,
                   messagesReceived, callbackErrors, reconnectCount, loop,
                   conn, brokerSubs, ioPc, ioTopics, ctl, sd, wNew,
                   lastEvent, connects, rejected, lastCalls, raised, sent,
                   lastDisconnectTs, dispVars, adapterVars, healthVars,
                   backoffVars, clock, expiredAt>>

\* self._shutdown_event.wait(timeout=...) returns: the event is set or the
\* timeout has passed
TimerWake ==
    /\ timer = "wait"
    /\ shutdownEvent \/ clock >= wakeAt
    /\ timer' = "running"
    /\ UNCHANGED <<state, client, clientGeneration, subscriptions,
                   reconnecting, shutdownEvent, messagesReceived,
                   callbackErrors, reconnectCount, loop, conn, brokerSubs,
                   ioPc, ioTopics, ctl, sd, workers, wNew, lastEvent,
                   connects, rejected, lastCalls, raised, sent,
                   lastDisconnectTs, dispVars, adapterVars, healthVars,
                   backoffVars, refreshVars>>

\* ------------------------------------------------------------------------
\* Dispatcher: pure parts
\* ------------------------------------------------------------------------

RECURSIVE Gcd(_, _)
Gcd(a, b) == IF b = 0 THEN a ELSE Gcd(b, a % b)

\* A fraction <<num, den>> in lowest terms
Reduce(n, d) == LET g == Gcd(n, d) IN <<n \div g, d \div g>>

\* append as it would be if a full deque discarded the new item
DequeAppendDropNewest(q, e, cap) == IF Len(q) = cap THEN q ELSE q \o <<e>>

\* append as it would be on a deque without maxlen
DequeAppendUnbounded(q, e, cap) == q \o <<e>>

\* collections.deque(maxlen = cap).append(e): a full deque discards its
\* leftmost item
DequeAppend(q, e, cap) ==
    IF Len(q) = cap THEN Tail(q) \o <<e>> ELSE q \o <<e>>

\* push as it would be if the EMA only accumulated the samples
EmaUpdateSum(ema, dropped) ==
    LET sample == IF dropped THEN 1 ELSE 0
    IN Reduce(emaAlpha[1] * sample * ema[2] + emaAlpha[2] * ema[1],
              emaAlpha[2] * ema[2])

\* push: ema = alpha * dropped + (1.0 - alpha) * ema
EmaUpdate(ema, dropped) ==
    LET sample == IF dropped THEN 1 ELSE 0
    IN Reduce(emaAlpha[1] * sample * ema[2]
                  + (emaAlpha[2] - emaAlpha[1]) * ema[1],
              emaAlpha[2] * ema[2])

\* self._drop_rate_ema > self._drop_warning_threshold
AboveThreshold(ema) ==
    ema[1] * dropWarningThreshold[2] > dropWarningThreshold[1] * ema[2]

\* push: the warning latch is set above the threshold and cleared at or
\* below it
LatchUpdate(ema, warned) == AboveThreshold(ema)

\* push as it would be if it warned on every push above the threshold
PushLoggedEveryTime(ema, warned) ==
    (IF AboveThreshold(ema) THEN {"warning"} ELSE {})
        \cup (IF ~AboveThreshold(ema) /\ warned THEN {"recovery"} ELSE {})

\* push: logger.warning when the EMA is above the threshold and the latch
\* is clear, logger.info when it is not above and the latch is set
PushLogged(ema, warned) ==
    IF AboveThreshold(ema)
    THEN IF ~warned THEN {"warning"} ELSE {}
    ELSE IF warned THEN {"recovery"} ELSE {}

\* the last message logged, after a push that logged msgs
LastLogged(last, msgs) ==
    IF "recovery" \in msgs THEN "recovery"
    ELSE IF "warning" \in msgs THEN "warning" ELSE last

\* The values ema_alpha and drop_warning_threshold may take: gt=0.0, le=1.0
Fractions ==
    {f \in (1..MaxDen) \X (1..MaxDen) : f[1] <= f[2] /\ Gcd(f[1], f[2]) = 1}

\* health(): queue_utilization = len(self._queue) / self._maxlen, as a
\* fraction <<num, den>>
QueueUtilization == <<Len(queue), maxlen>>

\* The event of the next push: events are numbered as they are pushed
NextEvent == pushCalls + 1

\* ------------------------------------------------------------------------
\* Dispatcher: complete calls, one at a time
\* ------------------------------------------------------------------------

\* push(event)
Push ==
    /\ prod.pc = "idle" /\ cons.pc = "idle"
    /\ pushCalls < MaxPush
    /\ LET full == Len(queue) = maxlen
           ema == EmaUpdate(dropRateEma, full)
       IN /\ totalDropped' = IF full THEN totalDropped + 1 ELSE totalDropped
          /\ evicted' = IF full THEN evicted + 1 ELSE evicted
          /\ queue' = DequeAppend(queue, NextEvent, maxlen)
          /\ totalPushed' = totalPushed + 1
          /\ dropRateEma' = ema
          /\ warnedDropRate' = LatchUpdate(ema, warnedDropRate)
          /\ pushLog' = PushLogged(ema, warnedDropRate)
    /\ lastLog' = LastLogged(lastLog, pushLog')
    /\ lastLogSinceClear' = LastLogged(lastLogSinceClear, pushLog')
    /\ pushCalls' = pushCalls + 1
    /\ UNCHANGED <<maxlen, totalPolled, prod, cons, received, pollRaised,
                   discarded, emaAlpha, dropWarningThreshold, sessionVars,
                   adapterVars, healthVars, backoffVars, refreshVars>>

\* poll as it would be if it took the newest events first (pop, not popleft)
PollNewestFirst(maxEvents) ==
    /\ prod.pc = "idle" /\ cons.pc = "idle"
    /\ maxEvents > 0
    /\ LET n == Min(maxEvents, Len(queue))
           out == [i \in 1..n |-> queue[Len(queue) + 1 - i]]
       IN /\ cons' = [cons EXCEPT !.events = out]
          /\ queue' = SubSeq(queue, 1, Len(queue) - n)
          /\ totalPolled' = totalPolled + n
          /\ received' = received \o out
    /\ pollRaised' = "none"
    /\ UNCHANGED <<maxlen, totalPushed, totalDropped, dropRateEma,
                   warnedDropRate, prod, pushCalls, evicted, discarded,
                   emaAlpha, dropWarningThreshold, pushLog, lastLog,
                   lastLogSinceClear, sessionVars, adapterVars, healthVars,
                   backoffVars, refreshVars>>

\* the loop of poll as it would be if it drained the buffer whatever
\* max_events is
PollLoopDrain(q, events, k) == [queue |-> << >>, events |-> events \o q]

RECURSIVE PollLoop(_, _, _)
\* for _ in range(max_events): if not queue: break;
\* events.append(queue.popleft()) -- with k iterations left
PollLoop(q, events, k) ==
    IF k = 0 \/ q = << >>
    THEN [queue |-> q, events |-> events]
    ELSE PollLoop(Tail(q), Append(events, Head(q)), k - 1)

\* poll(max_events) with max_events > 0
Poll(maxEvents) ==
    /\ prod.pc = "idle" /\ cons.pc = "idle"
    /\ maxEvents > 0
    /\ LET r == PollLoop(queue, << >>, maxEvents)
       IN /\ cons' = [cons EXCEPT !.events = r.events]
          /\ queue' = r.queue
          /\ totalPolled' = totalPolled + Len(r.events)
          /\ received' = received \o r.events
    /\ pollRaised' = "none"
    /\ UNCHANGED <<maxlen, totalPushed, totalDropped, dropRateEma,
                   warnedDropRate, prod, pushCalls, evicted, discarded,
                   emaAlpha, dropWarningThreshold, pushLog, lastLog,
                   lastLogSinceClear, sessionVars, adapterVars, healthVars,
                   backoffVars, refreshVars>>

\* poll as it would be if it took max_events <= 0 for 1 instead of raising
PollInvalidAsOne(maxEvents) ==
    /\ prod.pc = "idle" /\ cons.pc = "idle"
    /\ maxEvents <= 0
    /\ LET r == PollLoop(queue, << >>, 1)
       IN /\ cons' = [cons EXCEPT !.events = r.events]
          /\ queue' = r.queue
          /\ totalPolled' = totalPolled + Len(r.events)
          /\ received' = received \o r.events
    /\ pollRaised' = "none"
    /\ UNCHANGED <<maxlen, totalPushed, totalDropped, dropRateEma,
                   warnedDropRate, prod, pushCalls, evicted, discarded,
                   emaAlpha, dropWarningThreshold, pushLog, lastLog,
                   lastLogSinceClear, sessionVars, adapterVars, healthVars,
                   backoffVars, refreshVars>>

\* poll(max_events) with max_events <= 0: ValueError, nothing is touched
PollInvalid(maxEvents) ==
    /\ prod.pc = "idle" /\ cons.pc = "idle"
    /\ maxEvents <= 0
    /\ pollRaised' = "ValueError"
    /\ UNCHANGED <<maxlen, queue, totalPushed, totalPolled, totalDropped,
                   dropRateEma, warnedDropRate, prod, cons, pushCalls,
                   evicted, received, discarded, emaAlpha,
                   dropWarningThreshold, pushLog, lastLog,
                   lastLogSinceClear, sessionVars, adapterVars, healthVars,
                   backoffVars, refreshVars>>

\* clear() as it would be if it left the warning latch alone
ClearKeepsLatch ==
    /\ prod.pc = "idle" /\ cons.pc = "idle"
    /\ discarded' = Len(queue)
    /\ queue' = << >>
    /\ totalPushed' = 0
    /\ totalPolled' = 0
    /\ totalDropped' = 0
    /\ dropRateEma' = <<0, 1>>
    /\ pushCalls' = 0
    /\ evicted' = 0
    /\ received' = << >>
    /\ lastLogSinceClear' = "none"
    /\ UNCHANGED <<maxlen, warnedDropRate, prod, cons, pollRaised, emaAlpha,
                   dropWarningThreshold, pushLog, lastLog, sessionVars,
                   adapterVars, healthVars, backoffVars, refreshVars>>

\* clear(): remaining = len(queue); empty the buffer; zero the counters and
\* the EMA; reset the latch
Clear ==
    /\ prod.pc = "idle" /\ cons.pc = "idle"
    /\ discarded' = Len(queue)
    /\ queue' = << >>
    /\ totalPushed' = 0
    /\ totalPolled' = 0
    /\ totalDropped' = 0
    /\ dropRateEma' = <<0, 1>>
    /\ warnedDropRate' = FALSE
    /\ pushCalls' = 0
    /\ evicted' = 0
    /\ received' = << >>
    /\ lastLogSinceClear' = "none"
    /\ UNCHANGED <<maxlen, prod, cons, pollRaised, emaAlpha,
                   dropWarningThreshold, pushLog, lastLog, sessionVars,
                   adapterVars, healthVars, backoffVars, refreshVars>>

\* ------------------------------------------------------------------------
\* Dispatcher: producer thread in push(), statement by statement
\* ------------------------------------------------------------------------

\* if len(self._queue) == self._maxlen
PushCheck ==
    /\ prod.pc = "idle"
    /\ pushCalls < MaxPush
    /\ pushCalls' = pushCalls + 1
    /\ prod' = IF Len(queue) = maxlen
               THEN [pc |-> "count_drop", dropped |-> TRUE]
               ELSE [pc |-> "append", dropped |-> FALSE]
    /\ UNCHANGED <<maxlen, queue, totalPushed, totalPolled, totalDropped,
                   dropRateEma, warnedDropRate, cons, evicted, received,
                   pollRaised, discarded, emaAlpha, dropWarningThreshold,
                   pushLog, lastLog, lastLogSinceClear, sessionVars,
                   adapterVars, healthVars, backoffVars, refreshVars>>

\* self._total_dropped += 1; dropped = 1.0
PushCountDrop ==
    /\ prod.pc = "count_drop"
    /\ totalDropped' = totalDropped + 1
    /\ prod' = [prod EXCEPT !.pc = "append"]
    /\ UNCHANGED <<maxlen, queue, totalPushed, totalPolled, dropRateEma,
                   warnedDropRate, cons, pushCalls, evicted, received,
                   pollRaised, discarded, emaAlpha, dropWarningThreshold,
                   pushLog, lastLog, lastLogSinceClear, sessionVars,
                   adapterVars, healthVars, backoffVars, refreshVars>>

\* self._queue.append(event)
PushAppend ==
    /\ prod.pc = "append"
    /\ evicted' = IF Len(queue) = maxlen THEN evicted + 1 ELSE evicted
    /\ queue' = DequeAppend(queue, pushCalls, maxlen)
    /\ prod' = [prod EXCEPT !.pc = "count"]
    /\ UNCHANGED <<maxlen, totalPushed, totalPolled, totalDropped,
                   dropRateEma, warnedDropRate, cons, pushCalls, received,
                   pollRaised, discarded, emaAlpha, dropWarningThreshold,
                   pushLog, lastLog, lastLogSinceClear, sessionVars,
                   adapterVars, healthVars, backoffVars, refreshVars>>

\* self._total_pushed += 1, then the EMA and the warning latch, which only
\* this thread touches
PushCount ==
    /\ prod.pc = "count"
    /\ totalPushed' = totalPushed + 1
    /\ LET ema == EmaUpdate(dropRateEma, prod.dropped)
       IN /\ dropRateEma' = ema
          /\ warnedDropRate' = LatchUpdate(ema, warnedDropRate)
          /\ pushLog' = PushLogged(ema, warnedDropRate)
    /\ lastLog' = LastLogged(lastLog, pushLog')
    /\ lastLogSinceClear' = LastLogged(lastLogSinceClear, pushLog')
    /\ prod' = ProdIdle
    /\ UNCHANGED <<maxlen, queue, totalPolled, totalDropped, cons,
                   pushCalls, evicted, received, pollRaised, discarded,
                   emaAlpha, dropWarningThreshold, sessionVars, adapterVars,
                   healthVars, backoffVars, refreshVars>>

\* ------------------------------------------------------------------------
\* Dispatcher: consumer thread in poll(), statement by statement
\* ------------------------------------------------------------------------

\* events = []; for _ in range(max_events)
PollBegin(maxEvents) ==
    /\ cons.pc = "idle"
    /\ maxEvents > 0
    /\ cons' = [pc |-> "loop", left |-> maxEvents, events |-> << >>]
    /\ pollRaised' = "none"
    /\ UNCHANGED <<maxlen, queue, totalPushed, totalPolled, totalDropped,
                   dropRateEma, warnedDropRate, prod, pushCalls, evicted,
                   received, discarded, emaAlpha, dropWarningThreshold,
                   pushLog, lastLog, lastLogSinceClear, sessionVars,
                   adapterVars, healthVars, backoffVars, refreshVars>>

\* poll as it would be if it read the head without removing it
PollPopPeek ==
    /\ cons.pc = "loop"
    /\ cons.left > 0
    /\ queue # << >>
    /\ cons' = [cons EXCEPT !.left = @ - 1, !.events = Append(@, Head(queue))]
    /\ UNCHANGED <<maxlen, queue, totalPushed, totalPolled, totalDropped,
                   dropRateEma, warnedDropRate, prod, pushCalls, evicted,
                   received, pollRaised, discarded, emaAlpha,
                   dropWarningThreshold, pushLog, lastLog,
                   lastLogSinceClear, sessionVars, adapterVars, healthVars,
                   backoffVars, refreshVars>>

\* events.append(self._queue.popleft())
PollPop ==
    /\ cons.pc = "loop"
    /\ cons.left > 0
    /\ queue # << >>
    /\ queue' = Tail(queue)
    /\ cons' = [cons EXCEPT !.left = @ - 1, !.events = Append(@, Head(queue))]
    /\ UNCHANGED <<maxlen, totalPushed, totalPolled, totalDropped,
                   dropRateEma, warnedDropRate, prod, pushCalls, evicted,
                   received, pollRaised, discarded, emaAlpha,
                   dropWarningThreshold, pushLog, lastLog,
                   lastLogSinceClear, sessionVars, adapterVars, healthVars,
                   backoffVars, refreshVars>>

\* if not self._queue: break, or the range is exhausted
PollBreak ==
    /\ cons.pc = "loop"
    /\ cons.left = 0 \/ queue = << >>
    /\ cons' = [cons EXCEPT !.pc = "count", !.left = 0]
    /\ UNCHANGED <<maxlen, queue, totalPushed, totalPolled, totalDropped,
                   dropRateEma, warnedDropRate, prod, pushCalls, evicted,
                   received, pollRaised, discarded, emaAlpha,
                   dropWarningThreshold, pushLog, lastLog,
                   lastLogSinceClear, sessionVars, adapterVars, healthVars,
                   backoffVars, refreshVars>>

\* self._total_polled += len(events); return events
PollCount ==
    /\ cons.pc = "count"
    /\ totalPolled' = totalPolled + Len(cons.events)
    /\ received' = received \o cons.events
    /\ cons' = [cons EXCEPT !.pc = "idle"]
    /\ UNCHANGED <<maxlen, queue, totalPushed, totalDropped, dropRateEma,
                   warnedDropRate, prod, pushCalls, evicted, pollRaised,
                   discarded, emaAlpha, dropWarningThreshold, pushLog,
                   lastLog, lastLogSinceClear, sessionVars, adapterVars,
                   healthVars, backoffVars, refreshVars>>

\* ------------------------------------------------------------------------
\* BidOfferAdapter: the message handler
\* ------------------------------------------------------------------------

\* _on_message as it would be if the callback-error branch did not return
AdapterOnMessageFallsThrough(parseOk, callbackOk) ==
    /\ adapterFrames < MaxFrames
    /\ adapterFrames' = adapterFrames + 1
    /\ parseErrors' = IF parseOk THEN parseErrors ELSE parseErrors + 1
    /\ adapterCallbackErrors' = IF parseOk /\ ~callbackOk
                                THEN adapterCallbackErrors + 1
                                ELSE adapterCallbackErrors
    /\ messagesParsed' = IF parseOk THEN messagesParsed + 1 ELSE messagesParsed
    /\ UNCHANGED <<subscribedSymbols, transportSubscribes, requested,
                   sessionVars, dispVars, healthVars, backoffVars,
                   refreshVars>>

\* _on_message(topic, payload): phase 1 parses and builds the event, phase 2
\* hands it to on_event; parseOk and callbackOk say whether each phase
\* completes without an exception
AdapterOnMessage(parseOk, callbackOk) ==
    /\ adapterFrames < MaxFrames
    /\ adapterFrames' = adapterFrames + 1
    /\ IF ~parseOk
       THEN /\ parseErrors' = parseErrors + 1
            /\ UNCHANGED <<adapterCallbackErrors, messagesParsed>>
       ELSE IF ~callbackOk
       THEN /\ adapterCallbackErrors' = adapterCallbackErrors + 1
            /\ UNCHANGED <<parseErrors, messagesParsed>>
       ELSE /\ messagesParsed' = messagesParsed + 1
            /\ UNCHANGED <<parseErrors, adapterCallbackErrors>>
    /\ UNCHANGED <<subscribedSymbols, transportSubscribes, requested,
                   sessionVars, dispVars, healthVars, backoffVars,
                   refreshVars>>


\* ------------------------------------------------------------------------
\* BidOfferAdapter: subscribe(symbol)
\* ------------------------------------------------------------------------

\* The characters of a symbol: a letter in both cases and a digit
Chars == {"a", "A", "7"}

\* Every symbol of one to MaxSymLen characters
Symbols == UNION {[1..n -> Chars] : n \in 1..MaxSymLen}

\* str.upper() on one character
UpperChar(c) == IF c = "a" THEN "A" ELSE c

\* subscribe() as it would be without the normalisation
UpperIdentity(symbol) == symbol

\* symbol.upper()
Upper(symbol) == [i \in 1..Len(symbol) |-> UpperChar(symbol[i])]

\* f"{_TOPIC_PREFIX}{symbol}"
TopicPrefix == "proto/topic/bidofferv3/"
TopicOf(symbol) == <<TopicPrefix>> \o symbol

\* SettradeMQTTClient.subscribe(topic, callback) as one call, made while no
\* other thread of the session runs
TransportSubscribe(topic, cb) ==
    LET new == topic \notin DOMAIN subscriptions
        send == new /\ state = "CONNECTED" /\ client # 0
    IN /\ subscriptions' = IF new
                           THEN subscriptions @@ (topic :> <<cb>>)
                           ELSE [subscriptions EXCEPT ![topic] = Append(@, cb)]
       /\ sent' = IF send THEN <<"SUBSCRIBE", topic>> ELSE NoPacket
       /\ brokerSubs' = IF send /\ Open(client)
                        THEN [brokerSubs EXCEPT ![client] = @ \cup {topic}]
                        ELSE brokerSubs

\* BidOfferAdapter.subscribe(symbol): normalise, skip a symbol already
\* subscribed, otherwise record it and subscribe the topic on the transport
AdapterSubscribe(symbol) ==
    /\ Cardinality(requested \cup {symbol}) <= MaxSymbols
    /\ requested' = requested \cup {symbol}
    /\ LET sym == Upper(symbol)
           topic == TopicOf(sym)
       IN IF sym \in subscribedSymbols
          THEN UNCHANGED <<subscribedSymbols, transportSubscribes,
                           subscriptions, sent, brokerSubs>>
          ELSE /\ subscribedSymbols' = subscribedSymbols \cup {sym}
               /\ transportSubscribes' =
                      IF topic \in DOMAIN transportSubscribes
                      THEN [transportSubscribes EXCEPT ![topic] = @ + 1]
                      ELSE transportSubscribes @@ (topic :> 1)
               /\ TransportSubscribe(topic, "adapter")
    /\ UNCHANGED <<state, client, clientGeneration, reconnecting,
                   shutdownEvent, messagesReceived, callbackErrors,
                   reconnectCount, loop, conn, ioPc, ioTopics, ctl, sd,
                   workers, wNew, timer, lastEvent, connects, rejected,
                   lastCalls, raised, lastDisconnectTs, dispVars,
                   messagesParsed, parseErrors, adapterCallbackErrors,
                   adapterFrames, healthVars, backoffVars, refreshVars>>

\* ------------------------------------------------------------------------
\* FeedHealthMonitor
\* ------------------------------------------------------------------------

HealthSymbols == {"PTT", "RARE"}

\* values of now_ns, given by the caller or read from perf_counter_ns()
Times == 0..MaxNow

None == << >>
NoCall == <<"none", "", 0>>

\* int(seconds * 1_000_000_000): truncation toward zero, with the seconds
\* given in units of 1/UnitsPerNs ns
ToNs(units) == IF units >= 0 THEN units \div UnitsPerNs
                             ELSE -((-units) \div UnitsPerNs)

\* FeedHealthConfig: max_gap_seconds > 0; per_symbol_max_gap unconstrained
GapUnits == 1..MaxGapUnits
OverrideUnits == 0..MaxGapUnits
Overrides == UNION {[S -> OverrideUnits] : S \in SUBSET {"RARE"}}

\* FeedHealthMonitor.__init__
HealthInit(gap, perSymbol) ==
    /\ maxGapNs = ToNs(gap)
    /\ perSymbolMaxGapNs = [s \in DOMAIN perSymbol |-> ToNs(perSymbol[s])]
    /\ globalLastEventMonoNs = None
    /\ lastEventMonoNs = << >>
    /\ hCall = NoCall
    /\ hRet = FALSE

\* max(0, x)
Max0(x) == IF x > 0 THEN x ELSE 0

\* is_feed_dead as it would be with gap >= threshold
IsFeedDeadInclusive(now) ==
    IF globalLastEventMonoNs = None
    THEN FALSE
    ELSE Max0(now - globalLastEventMonoNs[1]) >= maxGapNs

\* is_feed_dead(now_ns)
IsFeedDead(now) ==
    IF globalLastEventMonoNs = None
    THEN FALSE
    ELSE Max0(now - globalLastEventMonoNs[1]) > maxGapNs

\* has_ever_received()
HasEverReceived == globalLastEventMonoNs # None

\* has_seen(symbol)
HasSeen(symbol) == symbol \in DOMAIN lastEventMonoNs

\* is_stale as it would be if it ignored the per-symbol override
IsStaleGlobalOnly(symbol, now) ==
    IF symbol \notin DOMAIN lastEventMonoNs
    THEN FALSE
    ELSE Max0(now - lastEventMonoNs[symbol]) > maxGapNs

\* is_stale(symbol, now_ns)
IsStale(symbol, now) ==
    IF symbol \notin DOMAIN lastEventMonoNs
    THEN FALSE
    ELSE LET maxGap == IF symbol \in DOMAIN perSymbolMaxGapNs
                       THEN perSymbolMaxGapNs[symbol]
                       ELSE maxGapNs
         IN Max0(now - lastEventMonoNs[symbol]) > maxGap

\* on_event(symbol, now_ns)
OnEvent(symbol, now) ==
    /\ globalLastEventMonoNs' = <<now>>
    /\ lastEventMonoNs' =
          [s \in DOMAIN lastEventMonoNs \cup {symbol} |->
              IF s = symbol THEN now ELSE lastEventMonoNs[s]]
    /\ hCall' = <<"on_event", symbol, now>>
    /\ hRet' = FALSE
    /\ UNCHANGED <<maxGapNs, perSymbolMaxGapNs, sessionVars, dispVars,
                   adapterVars, backoffVars, refreshVars>>

\* a call of is_feed_dead(now_ns)
CallIsFeedDead(now) ==
    /\ hCall' = <<"is_feed_dead", "", now>>
    /\ hRet' = IsFeedDead(now)
    /\ UNCHANGED <<maxGapNs, perSymbolMaxGapNs, globalLastEventMonoNs,
                   lastEventMonoNs, sessionVars, dispVars, adapterVars,
                   backoffVars, refreshVars>>

\* a call of is_stale(symbol, now_ns)
CallIsStale(symbol, now) ==
    /\ hCall' = <<"is_stale", symbol, now>>
    /\ hRet' = IsStale(symbol, now)
    /\ UNCHANGED <<maxGapNs, perSymbolMaxGapNs, globalLastEventMonoNs,
                   lastEventMonoNs, sessionVars, dispVars, adapterVars,
                   backoffVars, refreshVars>>

\* purge as it would be if it also forgot the global timestamp
PurgeForgetsGlobal(symbol) ==
    /\ hRet' = (symbol \in DOMAIN lastEventMonoNs)
    /\ lastEventMonoNs' = [s \in DOMAIN lastEventMonoNs \ {symbol} |->
                              lastEventMonoNs[s]]
    /\ globalLastEventMonoNs' = None
    /\ hCall' = <<"purge", symbol, 0>>
    /\ UNCHANGED <<maxGapNs, perSymbolMaxGapNs, sessionVars, dispVars,
                   adapterVars, backoffVars, refreshVars>>

\* purge(symbol): self._last_event_mono_ns.pop(symbol, None) is not None
Purge(symbol) ==
    /\ hRet' = (symbol \in DOMAIN lastEventMonoNs)
    /\ lastEventMonoNs' = [s \in DOMAIN lastEventMonoNs \ {symbol} |->
                              lastEventMonoNs[s]]
    /\ hCall' = <<"purge", symbol, 0>>
    /\ UNCHANGED <<maxGapNs, perSymbolMaxGapNs, globalLastEventMonoNs,
                   sessionVars, dispVars, adapterVars, backoffVars,
                   refreshVars>>

\* reset()
Reset ==
    /\ globalLastEventMonoNs' = None
    /\ lastEventMonoNs' = << >>
    /\ hCall' = <<"reset", "", 0>>
    /\ hRet' = FALSE
    /\ UNCHANGED <<maxGapNs, perSymbolMaxGapNs, sessionVars, dispVars,
                   adapterVars, backoffVars, refreshVars>>

\* ------------------------------------------------------------------------
\* infra/settrade_mqtt.py: the backoff of _reconnect_loop.  Delays are in
\* tenths of a second, the timeout of a wait in hundredths.
\* ------------------------------------------------------------------------

\* reconnect_min_delay: ge=0.1
MinDelayFloor == 1
\* reconnect_max_delay: ge=1.0
MaxDelayFloor == 10
\* the defaults of the two fields
DefaultMinDelay == 10
DefaultMaxDelay == 300

\* The configurations MQTTClientConfig accepts: each field has its own
\* lower bound and nothing relates the two
AcceptedDelays == (MinDelayFloor..MaxDelay) \X (MaxDelayFloor..MaxDelay)

\* random.uniform(0.8, 1.2), in tenths: the two ends and the middle
Jitter == {8, 10, 12}

BackoffInit(lo, hi) ==
    /\ reconnectMinDelay = lo
    /\ reconnectMaxDelay = hi
    /\ delay = lo
    /\ waited = << >>
    /\ jitteredDelay = << >>
    /\ attempts = 0
    /\ bPc = "idle"

\* delay = min(delay * 2, reconnect_max_delay)
NextDelay(d, hi) == Min(d * 2, hi)

\* a reconnect worker starts: delay = reconnect_min_delay
ReconnectLoopBegin ==
    /\ bPc = "idle"
    /\ bPc' = "loop"
    /\ delay' = reconnectMinDelay
    /\ attempts' = 0
    /\ waited' = << >>
    /\ jitteredDelay' = << >>
    /\ UNCHANGED <<reconnectMinDelay, reconnectMaxDelay, sessionVars,
                   dispVars, adapterVars, healthVars, refreshVars>>

\* except Exception: wait delay * uniform(0.8, 1.2), then double delay
\* up to reconnect_max_delay
ReconnectAttemptFails(k) ==
    /\ bPc = "loop"
    /\ attempts < MaxAttempts
    /\ waited' = <<delay>>
    /\ jitteredDelay' = <<delay * k>>
    /\ delay' = NextDelay(delay, reconnectMaxDelay)
    /\ attempts' = attempts + 1
    /\ UNCHANGED <<reconnectMinDelay, reconnectMaxDelay, bPc, sessionVars,
                   dispVars, adapterVars, healthVars, refreshVars>>

\* return after a TCP success, or the while condition sees shutdown
ReconnectLoopReturn ==
    /\ bPc = "loop"
    /\ bPc' = "idle"
    /\ UNCHANGED <<reconnectMinDelay, reconnectMaxDelay, delay, waited,
                   jitteredDelay, attempts, sessionVars, dispVars,
                   adapterVars, healthVars, refreshVars>>

\* ------------------------------------------------------------------------
\* The session: every thread of SettradeMQTTClient
\* ------------------------------------------------------------------------

Init ==
    /\ SessionInit /\ AdapterInit /\ HealthInit(MaxGapUnits, << >>)
    /\ BackoffInit(DefaultMinDelay, DefaultMaxDelay) /\ RefreshInit
    /\ DispatcherInit(1)

Next ==
    \/ ConnectBegin
    \/ ConnectRejected
    \/ ConnectStep
    \/ \E t \in LifecycleTopics : SubscribeExisting(t, "adapter")
    \/ \E t \in LifecycleTopics : SubscribeBegin(t, "adapter")
    \/ SubscribeSend
    \/ \E t \in LifecycleTopics : UnsubscribeBegin(t)
    \/ UnsubscribeSend
    \/ \E t \in LifecycleTopics : UnsubscribeUnknown(t)
    \/ ShutdownBegin
    \/ ShutdownAgain
    \/ ShutdownSetEvent
    \/ \E ok \in BOOLEAN : ShutdownLoopStop(ok)
    \/ \E ok \in BOOLEAN : ShutdownDisconnect(ok)
    \/ \E c \in Clients : OnConnectOk(c)
    \/ \E c \in Clients : OnConnectSnapshot(c)
    \/ \E c \in Clients : OnConnectReplay(c)
    \/ \E c \in Clients : OnConnectFail(c)
    \/ \E c \in Clients : OnDisconnectUnexpected(c)
    \/ \E c \in Clients : OnDisconnectClean(c)
    \/ WorkerStep
    \/ TimerExit
    \/ TimerFire

Spec == Init /\ [][Next]_vars

\* ------------------------------------------------------------------------
\* A running session with inbound frames: connect(), subscribe(), the
\* callbacks of every client instance, the reconnect worker and the refresh
\* timer
\* ------------------------------------------------------------------------

InitMsg ==
    /\ SessionInit /\ AdapterInit /\ HealthInit(MaxGapUnits, << >>)
    /\ BackoffInit(DefaultMinDelay, DefaultMaxDelay) /\ RefreshInit
    /\ DispatcherInit(1)

NextMsg ==
    \/ ConnectBegin
    \/ ConnectStep
    \/ \E t \in LifecycleTopics, cb \in Callbacks : SubscribeExisting(t, cb)
    \/ \E t \in LifecycleTopics, cb \in Callbacks : SubscribeBegin(t, cb)
    \/ SubscribeSend
    \/ \E c \in Clients : OnConnectOk(c)
    \/ \E c \in Clients : OnConnectSnapshot(c)
    \/ \E c \in Clients : OnConnectReplay(c)
    \/ \E c \in Clients : OnConnectFail(c)
    \/ \E c \in Clients : OnDisconnectUnexpected(c)
    \/ \E c \in Clients : OnDisconnectClean(c)
    \/ \E c \in Clients, t \in LifecycleTopics, parseOk \in BOOLEAN,
          fails \in SUBSET (1..MaxCallbacks) : OnMessage(c, t, parseOk, fails)
    \/ \E w \in Workers : WFetch(w)
    \/ \E w \in Workers : WFetchFail(w)
    \/ \E w \in Workers : WCreate(w)
    \/ \E w \in Workers, ok \in BOOLEAN : WConnect(w, ok)
    \/ \E w \in Workers : WLoopStart(w)
    \/ \E w \in Workers : WAssign(w)
    \/ \E w \in Workers : WFinally(w)
    \/ TimerFire

SpecMsg == InitMsg /\ [][NextMsg]_vars

\* ------------------------------------------------------------------------
\* A running session and its subscription registry: connect(), subscribe()
\* and unsubscribe() on every topic, the callbacks of every client instance,
\* the reconnect worker and the refresh timer
\* ------------------------------------------------------------------------

InitSub ==
    /\ SessionInit /\ AdapterInit /\ HealthInit(MaxGapUnits, << >>)
    /\ BackoffInit(DefaultMinDelay, DefaultMaxDelay) /\ RefreshInit
    /\ DispatcherInit(1)

NextSub ==
    \/ ConnectBegin
    \/ ConnectStep
    \/ \E t \in Topics : SubscribeExisting(t, "adapter")
    \/ \E t \in Topics : SubscribeBegin(t, "adapter")
    \/ SubscribeSend
    \/ \E t \in Topics : UnsubscribeBegin(t)
    \/ UnsubscribeSend
    \/ \E t \in Topics : UnsubscribeUnknown(t)
    \/ \E c \in Clients : OnConnectOk(c)
    \/ \E c \in Clients : OnConnectSnapshot(c)
    \/ \E c \in Clients : OnConnectReplay(c)
    \/ \E c \in Clients : OnConnectFail(c)
    \/ \E c \in Clients : OnDisconnectUnexpected(c)
    \/ \E c \in Clients : OnDisconnectClean(c)
    \/ \E w \in Workers : WFetch(w)
    \/ \E w \in Workers : WFetchFail(w)
    \/ \E w \in Workers : WCreate(w)
    \/ \E w \in Workers, ok \in BOOLEAN : WConnect(w, ok)
    \/ \E w \in Workers : WLoopStart(w)
    \/ \E w \in Workers : WAssign(w)
    \/ \E w \in Workers : WFinally(w)
    \/ TimerFire

SpecSub == InitSub /\ [][NextSub]_vars

\* ------------------------------------------------------------------------
\* The dispatcher used by one caller at a time: complete calls
\* ------------------------------------------------------------------------

InitSeq ==
    /\ SessionInit /\ AdapterInit /\ HealthInit(MaxGapUnits, << >>)
    /\ BackoffInit(DefaultMinDelay, DefaultMaxDelay) /\ RefreshInit
    /\ \E cap \in 1..MaxCap : DispatcherInit(cap)

NextSeq ==
    \/ Push
    \/ \E m \in 1..MaxBatch : Poll(m)
    \/ \E m \in -1..0 : PollInvalid(m)
    \/ Clear

SpecSeq == InitSeq /\ [][NextSeq]_vars

\* ------------------------------------------------------------------------
\* The dispatcher between its producer thread and its consumer thread
\* ------------------------------------------------------------------------

InitSPSC ==
    /\ SessionInit /\ AdapterInit /\ HealthInit(MaxGapUnits, << >>)
    /\ BackoffInit(DefaultMinDelay, DefaultMaxDelay) /\ RefreshInit
    /\ \E cap \in 1..MaxCap : DispatcherInit(cap)

NextSPSC ==
    \/ PushCheck
    \/ PushCountDrop
    \/ PushAppend
    \/ PushCount
    \/ \E m \in 1..MaxBatch : PollBegin(m)
    \/ PollPop
    \/ PollBreak
    \/ PollCount

SpecSPSC == InitSPSC /\ [][NextSPSC]_vars

\* ------------------------------------------------------------------------
\* The adapter's message handler, frame after frame
\* ------------------------------------------------------------------------

InitAdapter ==
    /\ SessionInit /\ AdapterInit /\ HealthInit(MaxGapUnits, << >>)
    /\ BackoffInit(DefaultMinDelay, DefaultMaxDelay) /\ RefreshInit
    /\ DispatcherInit(1)

NextAdapter ==
    \E parseOk, callbackOk \in BOOLEAN : AdapterOnMessage(parseOk, callbackOk)

SpecAdapter == InitAdapter /\ [][NextAdapter]_vars

\* ------------------------------------------------------------------------
\* The adapter's subscribe(), call after call on the main thread
\* ------------------------------------------------------------------------

InitNorm ==
    /\ SessionInit /\ AdapterInit /\ HealthInit(MaxGapUnits, << >>)
    /\ BackoffInit(DefaultMinDelay, DefaultMaxDelay) /\ RefreshInit
    /\ DispatcherInit(1)

NextNorm == \E symbol \in Symbols : AdapterSubscribe(symbol)

SpecNorm == InitNorm /\ [][NextNorm]_vars

\* ------------------------------------------------------------------------
\* The feed health monitor, call after call on the consumer thread, for
\* every configuration
\* ------------------------------------------------------------------------

InitHealth ==
    /\ SessionInit /\ AdapterInit /\ DispatcherInit(1)
    /\ BackoffInit(DefaultMinDelay, DefaultMaxDelay) /\ RefreshInit
    /\ \E gap \in GapUnits, perSymbol \in Overrides : HealthInit(gap, perSymbol)

NextHealth ==
    \/ \E symbol \in HealthSymbols, now \in Times : OnEvent(symbol, now)
    \/ \E now \in Times : CallIsFeedDead(now)
    \/ \E symbol \in HealthSymbols, now \in Times : CallIsStale(symbol, now)
    \/ \E symbol \in HealthSymbols : Purge(symbol)
    \/ Reset

SpecHealth == InitHealth /\ [][NextHealth]_vars

\* ------------------------------------------------------------------------
\* The session's threads without the registry, with the scheduling that
\* lets a reconnect worker run: each of its steps is taken when it stays
\* possible, and a fetch and a TCP connect that are possible again and
\* again succeed in the end
\* ------------------------------------------------------------------------

InitLive ==
    /\ SessionInit /\ AdapterInit /\ HealthInit(MaxGapUnits, << >>)
    /\ BackoffInit(DefaultMinDelay, DefaultMaxDelay) /\ RefreshInit
    /\ DispatcherInit(1)

NextLive ==
    \/ ConnectBegin
    \/ ConnectStep
    \/ ShutdownBegin
    \/ ShutdownSetEvent
    \/ \E ok \in BOOLEAN : ShutdownLoopStop(ok)
    \/ \E ok \in BOOLEAN : ShutdownDisconnect(ok)
    \/ \E c \in Clients : OnConnectOk(c)
    \/ \E c \in Clients : OnConnectSnapshot(c)
    \/ \E c \in Clients : OnConnectReplay(c)
    \/ \E c \in Clients : OnConnectFail(c)
    \/ \E c \in Clients : OnDisconnectUnexpected(c)
    \/ \E c \in Clients : OnDisconnectClean(c)
    \/ WorkerStep
    \/ TimerExit
    \/ TimerFire

WorkerFairness ==
    \A w \in Workers :
        /\ WF_vars(WExit(w))
        /\ SF_vars(WFetch(w))
        /\ WF_vars(WCreate(w))
        /\ SF_vars(WConnect(w, TRUE))
        /\ WF_vars(WLoopStart(w))
        /\ WF_vars(WAssign(w))
        /\ WF_vars(WFinally(w))

SpecLive == InitLive /\ [][NextLive]_vars /\ WorkerFairness

\* ------------------------------------------------------------------------
\* The backoff of the reconnect worker under every accepted configuration
\* ------------------------------------------------------------------------

InitBackoff ==
    /\ SessionInit /\ AdapterInit /\ HealthInit(MaxGapUnits, << >>)
    /\ DispatcherInit(1) /\ RefreshInit
    /\ \E cfg \in AcceptedDelays : BackoffInit(cfg[1], cfg[2])

NextBackoff ==
    \/ ReconnectLoopBegin
    \/ \E k \in Jitter : ReconnectAttemptFails(k)
    \/ ReconnectLoopReturn

SpecBackoff == InitBackoff /\ [][NextBackoff]_vars

\* ------------------------------------------------------------------------
\* The session's threads with the refresh thread followed step by step
\* against the clock
\* ------------------------------------------------------------------------

InitRefresh ==
    /\ SessionInit /\ AdapterInit /\ HealthInit(MaxGapUnits, << >>)
    /\ BackoffInit(DefaultMinDelay, DefaultMaxDelay) /\ RefreshInit
    /\ DispatcherInit(1)

NextRefresh ==
    \/ ConnectBegin
    \/ ConnectStep
    \/ ShutdownBegin
    \/ ShutdownSetEvent
    \/ \E ok \in BOOLEAN : ShutdownLoopStop(ok)
    \/ \E ok \in BOOLEAN : ShutdownDisconnect(ok)
    \/ \E c \in Clients : OnConnectOk(c)
    \/ \E c \in Clients : OnConnectSnapshot(c)
    \/ \E c \in Clients : OnConnectReplay(c)
    \/ \E c \in Clients : OnDisconnectClean(c)
    \/ WorkerStep
    \/ Tick
    \/ TimerObserve
    \/ TimerSchedule
    \/ TimerWake
    \/ TimerExit

SpecRefresh == InitRefresh /\ [][NextRefresh]_vars

\* ------------------------------------------------------------------------
\* The dispatcher's drop-rate EMA and warning latch under every smoothing
\* factor and threshold
\* ------------------------------------------------------------------------

InitEma ==
    /\ SessionInit /\ AdapterInit /\ HealthInit(MaxGapUnits, << >>)
    /\ BackoffInit(DefaultMinDelay, DefaultMaxDelay) /\ RefreshInit
    /\ \E cap \in 1..MaxCap, alpha \in Fractions, threshold \in Fractions :
          DispatcherInitWith(cap, alpha, threshold)

NextEma ==
    \/ Push
    \/ \E m \in 1..MaxBatch : Poll(m)
    \/ Clear

SpecEma == InitEma /\ [][NextEma]_vars


\* ========================================================================
\* Properties
\* ========================================================================

\* C1: SPSC accounting.  When the producer and the consumer have both
\* finished their calls, total_pushed equals the number of push calls and
\* total_polled + total_dropped + queue length equals total_pushed.
C1_SpscAccounting ==
    (prod.pc = "idle" /\ cons.pc = "idle") =>
        /\ totalPushed = pushCalls
        /\ totalPolled + totalDropped + Len(queue) = totalPushed

\* C2: SHUTDOWN is terminal.  Once the state is SHUTDOWN no step of any
\* thread changes it.
C2_ShutdownTerminal == [][state = "SHUTDOWN" => state' = "SHUTDOWN"]_vars

\* C3: at most one reconnect worker exists at any time.
C3_SingleWorker == Cardinality(ActiveWorkers) <= 1

\* A failed on_connect of the worker's new client arrived while that worker
\* was still running, and no second worker was started.
C3_TriggerWhileWorkerRuns ==
    /\ Cardinality(ActiveWorkers) = 1
    /\ \E w \in Workers :
          /\ workers[w] \in {"assign", "finally"}
          /\ wNew[w] # 0
          /\ conn[wNew[w]] = "refused"

\* C4: every on_connect(rc = 0) goes on to snapshot the registry as it is
\* at that moment and issues SUBSCRIBE for every topic of the snapshot on
\* the client instance it was delivered for, before the callback returns.
C4_ReplayOnConnect ==
    [][\A c \in Clients :
          /\ OnConnectOk(c) => ioPc'[c] = "oc_snapshot"
          /\ (ioPc[c] = "oc_snapshot" /\ ioPc'[c] # "oc_snapshot") =>
                /\ ioPc'[c] = "oc_replay"
                /\ ioTopics'[c] = DOMAIN subscriptions
          /\ (ioPc[c] = "oc_replay" /\ ioPc'[c] # "oc_replay") =>
                /\ ioPc'[c] = "idle"
                /\ ioTopics[c] \subseteq brokerSubs'[c]]_vars

\* A client the reconnect worker has not yet installed as self._client has
\* had the registry replayed on its connection.
C4_ReplayedOnNewClient ==
    \E w \in Workers :
        /\ workers[w] = "assign"
        /\ ioPc[wNew[w]] = "idle"
        /\ brokerSubs[wNew[w]] # {}

\* C5: a frame bound to a generation other than the current one invokes no
\* callback and leaves messages_received and callback_errors unchanged.
C5_StaleRejected ==
    [][\A c \in Clients, t \in Topics, parseOk \in BOOLEAN,
          fails \in SUBSET (1..MaxCallbacks) :
          (OnMessage(c, t, parseOk, fails) /\ c # clientGeneration) =>
              UNCHANGED <<messagesReceived, callbackErrors, lastEvent,
                          lastCalls>>]_vars

\* A frame of an old client instance has been rejected.
C5_StaleFrameSeen == rejected

\* C6: CONNECTED is declared only by on_connect(rc = 0).  The steps of
\* connect() after its state check and the steps of the reconnect worker
\* leave the state as it is.
C6_ConnectedOnlyByOnConnect ==
    [][/\ (state' = "CONNECTED" /\ state # "CONNECTED") =>
              \E c \in Clients : OnConnectOk(c)
       /\ (ConnectStep \/ WorkerStep) => state' = state]_vars

\* The worker has returned from a successful TCP connect, the new client
\* waits for its CONNACK, and the state is still RECONNECTING.
C6_AwaitingConnack ==
    /\ state = "RECONNECTING"
    /\ ActiveWorkers = {}
    /\ reconnectCount > 0
    /\ client \in loop
    /\ conn[client] = "tcp"

\* C7: no reconnect trigger is lost.  The session never rests in
\* RECONNECTING with no worker and no connection attempt pending: no call
\* of connect() or shutdown() in progress, no callback running, and no
\* client with a connection that is open or still has to report its loss.
C7_NoLostTrigger ==
    ~ /\ state = "RECONNECTING"
      /\ ~reconnecting
      /\ ActiveWorkers = {}
      /\ ctl.pc = "idle"
      /\ sd = "idle"
      /\ \A c \in Clients : ioPc[c] = "idle" /\ conn[c] \in {"none", "closed"}

\* C8: connection epoch.  An event emitted before the first reconnect
\* carries epoch 0, and an event emitted after a later transition to
\* CONNECTED carries a greater epoch.
C8_EpochMonotone ==
    lastEvent # NoEvent =>
        /\ lastEvent[2] <= 1 => lastEvent[1] = 0
        /\ lastEvent[2] >= 2 => lastEvent[1] >= 1

C10_QuiescentAccounting ==
    totalPushed - totalDropped - totalPolled = Len(queue)

\* Pushes have overflowed the buffer, a poll has consumed events, and
\* events remain buffered.
C10_DroppedPolledBuffered ==
    /\ totalDropped > 0
    /\ totalPolled > 0
    /\ Len(queue) > 0

\* C11: drop-oldest.  A push onto a full buffer evicts exactly the oldest
\* retained event and adds one to total_dropped; a push onto a buffer with
\* room evicts nothing.  After M > N pushes with nothing polled the buffer
\* holds the last N events in push order, total_dropped = M - N and
\* total_pushed = M.
C11_DropOldest ==
    [][Push =>
          /\ Len(queue) = maxlen =>
                /\ queue' = Tail(queue) \o <<NextEvent>>
                /\ totalDropped' = totalDropped + 1
          /\ Len(queue) < maxlen =>
                /\ queue' = queue \o <<NextEvent>>
                /\ totalDropped' = totalDropped
          /\ (totalPolled' = 0 /\ pushCalls' > maxlen) =>
                /\ queue' = [i \in 1..maxlen |-> pushCalls' - maxlen + i]
                /\ totalDropped' = pushCalls' - maxlen
                /\ totalPushed' = pushCalls']_vars

\* Two more events than the capacity have been pushed with nothing polled.
C11_OverflowedTwice ==
    /\ totalPolled = 0
    /\ received = << >>
    /\ maxlen = MaxCap
    /\ pushCalls = maxlen + 2
    /\ totalDropped = 2

\* C12: FIFO.  While no drop has occurred, the events returned by the polls
\* so far, followed by what a final drain would return, are the push
\* sequence.
C12_Fifo ==
    totalDropped = 0 => received \o queue = [i \in 1..pushCalls |-> i]

\* More events than the capacity have gone through without a drop, in more
\* than one poll.
C12_SeveralPollsNoDrop ==
    /\ totalDropped = 0
    /\ Len(received) > MaxBatch
    /\ Len(received) > maxlen

\* Events handed to the consumer so far, those of a poll in progress
\* included
Delivered == IF cons.pc = "idle" THEN received ELSE received \o cons.events

\* C13: order with drops and concurrency.  The events the consumer has
\* received are pushed events, in push order, none of them twice: their
\* numbers are strictly increasing.
C13_OrderPreserved ==
    /\ \A i \in 1..Len(Delivered) : Delivered[i] \in 1..pushCalls
    /\ \A i \in 1..Len(Delivered) - 1 : Delivered[i] < Delivered[i + 1]

\* The consumer has received events on both sides of an evicted one.
C13_GapAfterEviction ==
    /\ evicted > 0
    /\ \E i \in 1..Len(received) - 1 : received[i] + 1 < received[i + 1]

\* C14: bounded buffer.  The number of buffered events is between 0 and the
\* capacity, so the fill ratio is within [0, 1].
C14_Bounded ==
    /\ Len(queue) \in 0..maxlen
    /\ 0 <= QueueUtilization[1]
    /\ QueueUtilization[1] <= QueueUtilization[2]

\* The buffer is full after an append that evicted, while a poll is in
\* progress.
C14_FullAfterEviction ==
    /\ Len(queue) = maxlen
    /\ evicted > 0
    /\ cons.pc = "loop"

\* C15: decoder counter partition.  Every frame handed to the adapter's
\* handler adds one to exactly one of messages_parsed, parse_errors and
\* callback_errors: parse_errors on a parse failure, callback_errors on a
\* consumer-callback failure after a successful decode, messages_parsed on
\* full success; after k frames the three counters sum to k.
C15_CounterPartition ==
    [][\A parseOk, callbackOk \in BOOLEAN :
          AdapterOnMessage(parseOk, callbackOk) =>
              /\ ~parseOk =>
                    /\ parseErrors' = parseErrors + 1
                    /\ UNCHANGED <<messagesParsed, adapterCallbackErrors>>
              /\ (parseOk /\ ~callbackOk) =>
                    /\ adapterCallbackErrors' = adapterCallbackErrors + 1
                    /\ UNCHANGED <<messagesParsed, parseErrors>>
              /\ (parseOk /\ callbackOk) =>
                    /\ messagesParsed' = messagesParsed + 1
                    /\ UNCHANGED <<parseErrors, adapterCallbackErrors>>
              /\ messagesParsed' + parseErrors' + adapterCallbackErrors'
                    = adapterFrames']_vars

\* Frames of each of the three kinds have been handled.
C15_AllThreeOutcomes ==
    /\ messagesParsed > 0
    /\ parseErrors > 0
    /\ adapterCallbackErrors > 0

\* C16: fan-out isolation.  For an accepted frame every callback of the
\* topic is invoked exactly once, in registration order, whichever of them
\* fail; callback_errors grows by the number of failing callbacks, and the
\* session state and the registry are unchanged.
C16_FanOutIsolation ==
    [][\A c \in Clients, t \in Topics, parseOk \in BOOLEAN,
          fails \in SUBSET (1..MaxCallbacks) :
          (OnMessage(c, t, parseOk, fails) /\ c = clientGeneration) =>
              /\ lastCalls' = [i \in 1..Len(CallbacksOf(t)) |-> i]
              /\ callbackErrors' = callbackErrors + Cardinality(fails)
              /\ UNCHANGED <<state, subscriptions>>]_vars

\* The first of two callbacks failed and the second was still invoked.
C16_SecondCalledAfterFailure ==
    /\ "a" \in DOMAIN subscriptions
    /\ subscriptions["a"] = <<"user", "adapter">>
    /\ messagesReceived = 1
    /\ callbackErrors = 1
    /\ lastCalls = <<1, 2>>
    /\ lastEvent # NoEvent

\* C17: connect() is permitted only from INIT.  The body of connect() is
\* entered only from INIT, and entering it moves the state to CONNECTING;
\* a call in any other state raises the illegal-state error and changes
\* neither the state, the client instance, the generation nor any
\* background worker.
C17_ConnectOnlyFromInit ==
    [][/\ (ctl.pc = "idle" /\ ctl'.pc = "c_auth") =>
              (state = "INIT" /\ state' = "CONNECTING")
       /\ ConnectBegin => (state = "INIT" /\ state' = "CONNECTING")
       /\ (ConnectRejected \/ (raised # raised' /\ raised' = "RuntimeError")) =>
              /\ state # "INIT"
              /\ raised' = "RuntimeError"
              /\ UNCHANGED <<state, client, clientGeneration, workers, wNew,
                             timer, loop, conn, reconnecting, reconnectCount,
                             subscriptions, shutdownEvent, ctl>>]_vars

\* connect() was rejected while the session was established.
C17_RejectedWhileConnected ==
    /\ raised = "RuntimeError"
    /\ state = "CONNECTED"
    /\ client # 0
    /\ timer = "running"

\* C18: a failure of login, endpoint fetch or the first TCP connect inside
\* connect() leaves connect() as an exception, and afterwards there is no
\* reconnect worker, no refresh thread, no IO thread and no reconnect
\* attempt: nothing retries on its own.
C18_InitialFailureFatal ==
    /\ [](raised = "Exception" =>
             /\ ActiveWorkers = {}
             /\ ~reconnecting
             /\ reconnectCount = 0
             /\ timer = "off"
             /\ loop = {}
             /\ connects = 0
             /\ state \in {"CONNECTING", "SHUTDOWN"})
    /\ [][(ctl.pc \in {"c_auth", "c_tcp"} /\ ctl'.pc = "idle") =>
              raised' = "Exception"]_vars

\* The first TCP connect failed: a client instance exists, nothing runs.
C18_TcpConnectFailed ==
    /\ raised = "Exception"
    /\ client # 0
    /\ state = "CONNECTING"
    /\ ctl.pc = "idle"

\* C19: shutdown().  Whatever the state it is called in, and whether or not
\* loop_stop() and disconnect() raise, shutdown() returns with the state
\* SHUTDOWN and the shutdown event set; disconnect() is reached only after
\* loop_stop(); and once a call has set the event, no later call enters the
\* body again to stop or disconnect the client.
C19_ShutdownIdempotent ==
    [][/\ (sd # "idle" /\ sd' = "idle") =>
              (state' = "SHUTDOWN" /\ shutdownEvent')
       /\ (sd # "disconnect" /\ sd' = "disconnect") => sd = "loop_stop"
       /\ (sd = "idle" /\ sd' # "idle") => ~shutdownEvent]_vars

\* C20: subscribe(topic, callback).  The callback is always appended to the
\* topic's registry entry, which is created when absent.  A SUBSCRIBE is
\* issued if and only if the entry was absent and the state read by the
\* call is CONNECTED; in INIT, CONNECTING and RECONNECTING only the registry
\* changes, and for an already-registered topic nothing is sent.  The call
\* never changes the session state.
C20_SubscribeContract ==
    [][/\ \A t \in Topics, cb \in Callbacks :
             SubscribeExisting(t, cb) =>
                 /\ sent' = NoPacket
                 /\ brokerSubs' = brokerSubs
                 /\ state' = state
                 /\ DOMAIN subscriptions' = DOMAIN subscriptions
                 /\ subscriptions'[t] = Append(subscriptions[t], cb)
       /\ \A t \in Topics, cb \in Callbacks :
             SubscribeBegin(t, cb) =>
                 /\ ctl'.isConn = (state = "CONNECTED")
                 /\ ctl'.topic = t
                 /\ sent' = NoPacket
                 /\ brokerSubs' = brokerSubs
                 /\ state' = state
       /\ SubscribeSend =>
             /\ (sent' = <<"SUBSCRIBE", ctl.topic>>) <=> ctl.isConn
             /\ ~ctl.isConn => (sent' = NoPacket /\ brokerSubs' = brokerSubs)
             /\ ctl.topic \in DOMAIN subscriptions'
             /\ subscriptions'[ctl.topic] = <<ctl.cb>>
             /\ state' = state
       /\ (sent' # sent /\ sent' # NoPacket /\ sent'[1] = "SUBSCRIBE") =>
             (ctl.pc = "sub_send" /\ ctl.isConn)]_vars

\* A new topic was subscribed while CONNECTED: the packet went out on the
\* current client and the callback is registered.
C20_SentWhileConnected ==
    /\ sent = <<"SUBSCRIBE", "b">>
    /\ "b" \in DOMAIN subscriptions
    /\ subscriptions["b"] = <<"adapter">>
    /\ client # 0
    /\ "b" \in brokerSubs[client]
    /\ state = "CONNECTED"

\* C21: unsubscribe(topic).  For a registered topic the whole registry entry
\* is removed, whatever the number of its callbacks, and no other entry
\* changes; an UNSUBSCRIBE is issued if and only if the state read by the
\* call is CONNECTED.  For a topic that is not registered the call changes
\* neither the registry, the state nor the counters and sends nothing.
C21_UnsubscribeContract ==
    [][/\ \A t \in Topics :
             UnsubscribeBegin(t) =>
                 /\ t \in DOMAIN subscriptions
                 /\ DOMAIN subscriptions' = DOMAIN subscriptions \ {t}
                 /\ \A u \in DOMAIN subscriptions' :
                        subscriptions'[u] = subscriptions[u]
                 /\ ctl'.isConn = (state = "CONNECTED")
                 /\ ctl'.topic = t
                 /\ sent' = NoPacket
                 /\ brokerSubs' = brokerSubs
                 /\ state' = state
       /\ UnsubscribeSend =>
             /\ (sent' = <<"UNSUBSCRIBE", ctl.topic>>) <=> ctl.isConn
             /\ ~ctl.isConn => (sent' = NoPacket /\ brokerSubs' = brokerSubs)
             /\ subscriptions' = subscriptions
             /\ state' = state
       /\ \A t \in Topics :
             UnsubscribeUnknown(t) =>
                 /\ sent' = NoPacket
                 /\ UNCHANGED <<subscriptions, state, brokerSubs,
                                messagesReceived, callbackErrors,
                                reconnectCount, ctl>>
       /\ (sent' # sent /\ sent' # NoPacket /\ sent'[1] = "UNSUBSCRIBE") =>
             (ctl.pc = "unsub_send" /\ ctl.isConn)]_vars

\* A registered topic was unsubscribed while CONNECTED: its entry is gone,
\* the packet went out, and the other topic's two callbacks are untouched.
C21_UnsubscribedWhileConnected ==
    /\ sent = <<"UNSUBSCRIBE", "b">>
    /\ "b" \notin DOMAIN subscriptions
    /\ "a" \in DOMAIN subscriptions
    /\ Len(subscriptions["a"]) = 2
    /\ state = "CONNECTED"

\* C22: symbol normalisation.  Whatever symbols were passed to the
\* adapter's subscribe, the subscribed symbols are all uppercase; the
\* registry has exactly one entry per subscribed symbol, on its topic, with
\* the adapter callback registered once; the transport subscribe was called
\* exactly once per topic; and every call leaves the uppercase form of its
\* symbol subscribed, so symbols that differ only in case share one entry.
C22_SymbolNormalised ==
    /\ [](/\ \A s \in subscribedSymbols :
                \A i \in 1..Len(s) : s[i] \in {"A", "7"}
          /\ DOMAIN subscriptions = {TopicOf(s) : s \in subscribedSymbols}
          /\ \A t \in DOMAIN subscriptions : subscriptions[t] = <<"adapter">>
          /\ DOMAIN transportSubscribes = DOMAIN subscriptions
          /\ \A t \in DOMAIN transportSubscribes : transportSubscribes[t] = 1
          /\ \A r \in requested :
                \E s \in subscribedSymbols :
                   /\ Len(s) = Len(r)
                   /\ \A i \in 1..Len(r) :
                         s[i] = r[i] \/ (r[i] = "a" /\ s[i] = "A"))
    /\ [][\A symbol \in Symbols :
             AdapterSubscribe(symbol) =>
                 Cardinality(subscribedSymbols') <= Cardinality(requested')]_vars

\* "aa", "Aa" and "AA" were all subscribed: one symbol, one entry, one call.
C22_ThreeSpellingsOneEntry ==
    /\ requested = {<<"a", "a">>, <<"A", "a">>, <<"A", "A">>}
    /\ subscribedSymbols = {<<"A", "A">>}
    /\ DOMAIN subscriptions = {TopicOf(<<"A", "A">>)}
    /\ transportSubscribes[TopicOf(<<"A", "A">>)] = 1

\* C23: poll(max) with max > 0 returns the min(max, queue_len) oldest
\* events in order and removes exactly those, returns nothing from an empty
\* buffer, adds the number returned to total_polled, and leaves
\* total_pushed, total_dropped and the drop-rate EMA unchanged.
C23_PollContract ==
    [][\A m \in 1..(MaxBatch + 1) :
          Poll(m) =>
              LET n == Min(m, Len(queue))
              IN /\ cons'.events = SubSeq(queue, 1, n)
                 /\ queue' = SubSeq(queue, n + 1, Len(queue))
                 /\ queue = << >> => cons'.events = << >>
                 /\ totalPolled' = totalPolled + n
                 /\ UNCHANGED <<totalPushed, totalDropped, dropRateEma,
                                warnedDropRate, maxlen>>]_vars

\* The only poll so far asked for one event of a full buffer of two, after
\* the first event had been evicted: it returned the older one and left
\* the newer.
C23_PolledOneOfTwo ==
    /\ maxlen = 2
    /\ totalDropped = 1
    /\ totalPolled = 1
    /\ cons.events = <<2>>
    /\ queue = <<3>>

\* C24: poll(max) with max <= 0 raises the validation error and changes
\* nothing: buffer, the three counters, the EMA and the warning latch are as
\* before the call; and a poll with max > 0 does not raise it.
C24_PollInvalidNoEffect ==
    [][/\ \A m \in -1..0 :
             PollInvalid(m) =>
                 /\ pollRaised' = "ValueError"
                 /\ UNCHANGED <<queue, totalPushed, totalPolled,
                                totalDropped, dropRateEma, warnedDropRate,
                                maxlen, cons, received>>
       /\ (pollRaised # "ValueError" /\ pollRaised' = "ValueError") =>
             UNCHANGED <<queue, totalPushed, totalPolled, totalDropped,
                         dropRateEma, warnedDropRate, maxlen, cons, received>>
       /\ \A m \in 1..MaxBatch : Poll(m) => pollRaised' = "none"]_vars

\* poll was rejected on a dispatcher with events buffered, events dropped,
\* events polled and the warning latch set.
C24_RejectedWithHistory ==
    /\ pollRaised = "ValueError"
    /\ queue # << >>
    /\ totalDropped > 0
    /\ totalPolled > 0
    /\ warnedDropRate

\* C25: clear() at quiescence, after any history, empties the buffer, zeroes
\* total_pushed, total_polled, total_dropped and the EMA, resets the latch
\* and keeps the capacity: every field that push and poll read or write is
\* as DispatcherInit leaves it for the same capacity, so what follows is
\* what follows construction.
C25_ClearIsFresh ==
    [][Clear =>
          /\ queue' = << >>
          /\ totalPushed' = 0
          /\ totalPolled' = 0
          /\ totalDropped' = 0
          /\ dropRateEma' = <<0, 1>>
          /\ ~warnedDropRate'
          /\ maxlen' = maxlen
          /\ prod' = ProdIdle
          /\ cons'.pc = "idle"
          /\ \A full \in BOOLEAN :
                LatchUpdate(EmaUpdate(dropRateEma', full), warnedDropRate') =
                LatchUpdate(EmaUpdate(<<0, 1>>, full), FALSE)]_vars

\* clear() ran on a dispatcher that had polled events and still held one.
C25_ClearedAfterHistory ==
    /\ discarded = 1
    /\ cons.events # << >>
    /\ queue = << >>
    /\ totalPushed = 0
    /\ totalPolled = 0
    /\ pushCalls = 0

\* C26: is_feed_dead(now).  While no event has been recorded since
\* construction or the last reset it is false for every now; otherwise it
\* is true exactly when max(0, now - global_last) is strictly greater than
\* the global threshold, so false at a gap of exactly the threshold and
\* false for a now earlier than global_last.  A call returns that value.
C26_FeedDead ==
    /\ [](\A now \in Times :
             /\ ~HasEverReceived => ~IsFeedDead(now)
             /\ HasEverReceived =>
                   LET last == globalLastEventMonoNs[1]
                   IN /\ now - last > maxGapNs => IsFeedDead(now)
                      /\ now - last = maxGapNs => ~IsFeedDead(now)
                      /\ (now - last < maxGapNs /\ now >= last) =>
                            ~IsFeedDead(now)
                      /\ now < last => ~IsFeedDead(now))
    /\ [][/\ Reset => ~HasEverReceived'
          /\ \A s \in HealthSymbols, now \in Times :
                OnEvent(s, now) =>
                    (HasEverReceived' /\ globalLastEventMonoNs'[1] = now)
          /\ \A now \in Times :
                CallIsFeedDead(now) =>
                    /\ hRet' = IsFeedDead(now)
                    /\ UNCHANGED <<globalLastEventMonoNs, lastEventMonoNs,
                                   maxGapNs, perSymbolMaxGapNs>>]_vars

\* is_feed_dead was asked at a gap of exactly the (non-zero) threshold and
\* answered false.
C26_AskedAtBoundary ==
    /\ hCall[1] = "is_feed_dead"
    /\ HasEverReceived
    /\ maxGapNs > 0
    /\ hCall[3] - globalLastEventMonoNs[1] = maxGapNs
    /\ hRet = FALSE

\* C27: is_stale(symbol, now).  False for every symbol that is not tracked
\* (never observed, purged, or after reset); for a tracked symbol true
\* exactly when max(0, now - last(symbol)) is strictly greater than the
\* symbol's threshold: its override when one is configured, the global
\* threshold otherwise.  A call returns that value.
C27_Stale ==
    /\ [](\A s \in HealthSymbols, now \in Times :
             /\ ~HasSeen(s) => ~IsStale(s, now)
             /\ HasSeen(s) =>
                   LET gap == Max0(now - lastEventMonoNs[s])
                   IN /\ s \in DOMAIN perSymbolMaxGapNs =>
                            (IsStale(s, now) <=> gap > perSymbolMaxGapNs[s])
                      /\ s \notin DOMAIN perSymbolMaxGapNs =>
                            (IsStale(s, now) <=> gap > maxGapNs))
    /\ [][/\ Reset => \A s \in HealthSymbols : ~HasSeen(s)'
          /\ \A s \in HealthSymbols : Purge(s) => ~HasSeen(s)'
          /\ \A s \in HealthSymbols, now \in Times :
                OnEvent(s, now) => (HasSeen(s)' /\ lastEventMonoNs'[s] = now)
          /\ \A s \in HealthSymbols, now \in Times :
                CallIsStale(s, now) =>
                    /\ hRet' = IsStale(s, now)
                    /\ UNCHANGED <<globalLastEventMonoNs, lastEventMonoNs,
                                   maxGapNs, perSymbolMaxGapNs>>]_vars

\* At the same gap, above the override and not above the global threshold,
\* the symbol with the override was reported stale.
C27_OverrideDecides ==
    /\ hCall[1] = "is_stale"
    /\ hCall[2] = "RARE"
    /\ "RARE" \in DOMAIN perSymbolMaxGapNs
    /\ HasSeen("RARE")
    /\ LET gap == Max0(hCall[3] - lastEventMonoNs["RARE"])
       IN gap > perSymbolMaxGapNs["RARE"] /\ gap <= maxGapNs
    /\ hRet = TRUE

\* C28: purge(symbol) removes that symbol's entry only and returns true
\* exactly when the symbol was tracked; the global last-event timestamp and
\* every other symbol's entry are unchanged, so has_ever_received() and
\* is_feed_dead(now), for every now, answer as before the purge.
C28_PurgeLocal ==
    [][\A s \in HealthSymbols :
          Purge(s) =>
              /\ hRet' = HasSeen(s)
              /\ DOMAIN lastEventMonoNs' = DOMAIN lastEventMonoNs \ {s}
              /\ \A u \in DOMAIN lastEventMonoNs' :
                     lastEventMonoNs'[u] = lastEventMonoNs[u]
              /\ globalLastEventMonoNs' = globalLastEventMonoNs
              /\ HasEverReceived' = HasEverReceived
              /\ \A now \in Times : IsFeedDead(now)' = IsFeedDead(now)
              /\ UNCHANGED <<maxGapNs, perSymbolMaxGapNs>>]_vars

\* The last tracked symbol was purged: nothing is tracked, and the monitor
\* still knows that events were received.
C28_PurgedLastSymbol ==
    /\ hCall[1] = "purge"
    /\ hRet = TRUE
    /\ DOMAIN lastEventMonoNs = {}
    /\ HasEverReceived

\* C29: unexpected disconnect.  on_disconnect(rc # 0) received in a state
\* other than SHUTDOWN moves the state to RECONNECTING and leaves the guard
\* flag set with a reconnect worker running: a new one when the flag was
\* clear, the existing one otherwise.  Received in SHUTDOWN it changes
\* neither the state nor the flag and starts nothing.
C29_UnexpectedDisconnect ==
    [][\A c \in Clients :
          OnDisconnectUnexpected(c) =>
              IF state = "SHUTDOWN"
              THEN UNCHANGED <<state, reconnecting, workers, wNew, client,
                               clientGeneration, timer>>
              ELSE /\ state' = "RECONNECTING"
                   /\ reconnecting'
                   /\ ActiveWorkers' # {}
                   /\ ~reconnecting =>
                         Cardinality(ActiveWorkers') =
                            Cardinality(ActiveWorkers) + 1
                   /\ reconnecting => workers' = workers]_vars

\* C30: clean disconnect.  on_disconnect(rc = 0), in whatever state it is
\* received, leaves the session state, the registry, the guard flag and the
\* client generation unchanged and starts no reconnect worker; of the
\* session's own fields only the last-disconnect timestamp is written.
C30_CleanDisconnect ==
    [][\A c \in Clients :
          OnDisconnectClean(c) =>
              /\ lastDisconnectTs' = "clean"
              /\ UNCHANGED <<state, subscriptions, reconnecting,
                             clientGeneration, client, workers, wNew,
                             reconnectCount, shutdownEvent, timer,
                             messagesReceived, callbackErrors>>]_vars

\* The last disconnect was a clean one, and the session is CONNECTED with
\* the guard clear and no worker.
C30_CleanWhileConnected ==
    /\ lastDisconnectTs = "clean"
    /\ state = "CONNECTED"
    /\ ~reconnecting
    /\ ActiveWorkers = {}

\* C31: no reconnect worker after shutdown.  Once shutdown() has set the
\* state to SHUTDOWN, no step starts a reconnect worker, and every reconnect
\* trigger (failed on_connect, unexpected disconnect, refresh timer) leaves
\* the state and the guard flag as they are.
C31_NoWorkerAfterShutdown ==
    [][(sd # "idle" \/ shutdownEvent) =>
          /\ ActiveWorkers' \subseteq ActiveWorkers
          /\ (\/ \E c \in Clients : OnConnectFail(c)
              \/ \E c \in Clients : OnDisconnectUnexpected(c)
              \/ TimerFire) => UNCHANGED <<state, reconnecting, workers>>]_vars

C33_Backoff ==
    /\ [](waited # << >> => waited[1] <= reconnectMaxDelay)
    /\ [][(bPc = "idle" /\ bPc' = "loop") =>
             delay' = reconnectMinDelay]_vars
    /\ [][attempts' = attempts + 1 =>
             delay' = Min(2 * delay, reconnectMaxDelay)]_vars

\* C34: the credential-refresh thread.  A time check made while shutdown
\* is not signalled leads to a reconnect request exactly when
\* now >= expiry - T_refresh; the request goes through the guarded path
\* and leaves the live client alone; no other step of the thread requests
\* anything; and once shutdown is signalled the thread requests no
\* further reconnect.
C34_RefreshThread ==
    /\ [][(timer = "running" /\ timer' \in {"due", "wait"}) =>
             (timer' = "due" <=> clock >= expiredAt - RefreshBefore)]_vars
    /\ [][(timer = "due" /\ timer' # "due") =>
             /\ ScheduleReconnect
             /\ UNCHANGED <<client, clientGeneration, loop, conn>>]_vars
    /\ [][(timer \in {"running", "wait"} /\ timer' # timer) =>
             UNCHANGED <<state, reconnecting, workers>>]_vars
    /\ [][shutdownEvent => ~(timer = "due" /\ timer' # "due")]_vars

\* C35: the drop-rate EMA.  Every push sets ema to
\* alpha * sample + (1 - alpha) * ema with sample 1 exactly when the push
\* found the buffer full; for every alpha in (0, 1] the EMA stays in
\* [0, 1], is 0 while nothing was dropped since construction or the last
\* clear, and does not grow on a push that drops nothing.
C35_DropRateEma ==
    /\ [][pushCalls' = pushCalls + 1 =>
             LET sample == IF Len(queue) = maxlen THEN 1 ELSE 0
             IN dropRateEma'[1] * (emaAlpha[2] * dropRateEma[2]) =
                    dropRateEma'[2] *
                        (emaAlpha[1] * sample * dropRateEma[2]
                            + (emaAlpha[2] - emaAlpha[1]) * dropRateEma[1])]_vars
    /\ [](/\ dropRateEma[2] > 0
          /\ 0 <= dropRateEma[1]
          /\ dropRateEma[1] <= dropRateEma[2])
    /\ [](totalDropped = 0 => dropRateEma[1] = 0)
    /\ [][(pushCalls' = pushCalls + 1 /\ Len(queue) < maxlen) =>
             dropRateEma'[1] * dropRateEma[2] <=
                 dropRateEma[1] * dropRateEma'[2]]_vars

\* With alpha = 1/3 a drop raised the EMA to 1/3 and a push that dropped
\* nothing brought it down to 2/9.
C35_DecayedAfterDrop ==
    /\ emaAlpha = <<1, 3>>
    /\ totalDropped = 1
    /\ dropRateEma = <<2, 9>>

\* C36 as stated: a push warns exactly when its EMA is above the threshold
\* with the latch clear and reports recovery exactly when it is at or
\* below with the latch set; after a push the latch is set iff the EMA is
\* above the threshold; no push logs both; and over the life of the
\* dispatcher a warning follows only a recovery or nothing, a recovery
\* only a warning.
C36_WarningLatch ==
    /\ [][pushCalls' = pushCalls + 1 =>
             /\ "warning" \in pushLog' <=>
                    (AboveThreshold(dropRateEma') /\ ~warnedDropRate)
             /\ "recovery" \in pushLog' <=>
                    (~AboveThreshold(dropRateEma') /\ warnedDropRate)
             /\ warnedDropRate' <=> AboveThreshold(dropRateEma')
             /\ Cardinality(pushLog') <= 1]_vars
    /\ [][pushCalls' = pushCalls + 1 =>
             /\ "warning" \in pushLog' => lastLog \in {"none", "recovery"}
             /\ "recovery" \in pushLog' => lastLog = "warning"]_vars

\* C36, amended: the same, with the alternation of warnings and recoveries
\* counted since construction or the last clear(), which resets the latch
\* without a message.
C36_WarningLatchSinceClear ==
    /\ [][pushCalls' = pushCalls + 1 =>
             /\ "warning" \in pushLog' <=>
                    (AboveThreshold(dropRateEma') /\ ~warnedDropRate)
             /\ "recovery" \in pushLog' <=>
                    (~AboveThreshold(dropRateEma') /\ warnedDropRate)
             /\ warnedDropRate' <=> AboveThreshold(dropRateEma')
             /\ Cardinality(pushLog') <= 1]_vars
    /\ [][pushCalls' = pushCalls + 1 =>
             /\ "warning" \in pushLog' =>
                    lastLogSinceClear \in {"none", "recovery"}
             /\ "recovery" \in pushLog' =>
                    lastLogSinceClear = "warning"]_vars

\* A push has just reported recovery: an earlier push warned, and the EMA
\* has fallen back to the threshold or below.
C36_RecoveryLogged ==
    /\ pushLog = {"recovery"}
    /\ lastLogSinceClear = "recovery"
    /\ ~warnedDropRate
    /\ totalDropped >= 1

\* C37: CONNECTED comes from the current generation.  An on_connect(rc=0)
\* marks the session CONNECTED only when it is delivered by the client
\* instance of the current generation; the generation does not move while
\* the session stays CONNECTED; and subscriptions are replayed only onto
\* the client of the current generation.
C37_ConnectedByCurrentGeneration ==
    /\ [][\A c \in Clients :
             (ioPc[c] = "idle" /\ ioPc'[c] = "oc_snapshot") =>
                 c = clientGeneration]_vars
    /\ [][(state = "CONNECTED" /\ state' = "CONNECTED") =>
             clientGeneration' = clientGeneration]_vars
    /\ [][\A c \in Clients :
             (ioPc[c] = "oc_replay" /\ ioPc'[c] = "idle") =>
                 c = clientGeneration]_vars

\* No call, callback or worker is in progress, and no client with a running
\* IO thread still awaits its CONNACK.
Quiescent ==
    /\ ctl.pc = "idle"
    /\ sd = "idle"
    /\ ActiveWorkers = {}
    /\ \A c \in Clients : ioPc[c] = "idle"
    /\ \A c \in Clients : c \in loop => conn[c] # "tcp"

\* C38: no subscription is lost across a reconnect.  Whenever the session
\* is CONNECTED with nothing in progress and the connection of the
\* latest-generation client is up, every topic of the registry has been
\* subscribed on that client.
C38_RegistrySubscribedOnCurrent ==
    (/\ state = "CONNECTED"
     /\ Quiescent
     /\ clientGeneration # 0
     /\ conn[clientGeneration] = "up") =>
        DOMAIN subscriptions \subseteq brokerSubs[clientGeneration]

\* C39: no subscription is resurrected.  Whenever nothing is in progress
\* and the connection of the latest-generation client is up, that client is
\* subscribed to no topic that is absent from the registry.
C39_NoResurrectedSubscription ==
    (/\ Quiescent
     /\ clientGeneration # 0
     /\ conn[clientGeneration] = "up") =>
        brokerSubs[clientGeneration] \subseteq DOMAIN subscriptions

\* C40: shutdown leaves nothing running.  Once shutdown() has returned, the
\* reconnect workers and the refresh thread have ended and no other call
\* or callback is in progress, no client instance has a running IO loop
\* or an open connection.
C40_ShutdownLeavesNothingRunning ==
    (/\ shutdownEvent
     /\ sd = "idle"
     /\ ctl.pc = "idle"
     /\ ActiveWorkers = {}
     /\ timer \in {"off", "done"}
     /\ \A c \in Clients : ioPc[c] = "idle") =>
        /\ loop = {}
        /\ \A c \in Clients : ~Open(c)

====
